---- MODULE Spec2Model ----
(***************************************************************************)
(* egui-nav: the stack navigator (Nav), its drag interpreter (Drag) and    *)
(* the spring step that drives its animations.                             *)
(*                                                                         *)
(* Lengths are fixed-point numbers: one unit is 1/20 of a pixel, so the    *)
(* f32 constants of the source are 0.1 px = 2, 0.2 px = 4, 8 px = 160.     *)
(* A product with 0.3 is (3 * d) \div 10, rounded toward zero.             *)
(* An Option<f32> is the sequence <<>> (None) or <<v>> (Some(v)); an       *)
(* Option of an enum or of an egui::Id is the value or the string "None".  *)
(***************************************************************************)
EXTENDS Integers, Sequences, FiniteSets, TLC

\* ---------------------------------------------------------------- bounds
\* width of the rectangle the Nav is shown in (available_rect.width()): 4 px
Width == 80
\* height of that rectangle: 4 px
Height == 80
\* the host's route stack has 1..MaxRoutes routes
MaxRoutes == 2
\* the spring step is explored from offsets and targets in -MaxSpring..MaxSpring
MaxSpring == 60

\* the stacks handed to a constructor have 0..MaxStack routes
MaxStack == 3
\* cur_direction is explored on pointer positions up to MaxDrag px from the
\* press origin on each axis, in steps of 1 px
MaxDrag == 10

\* ------------------------------------------------------ program constants
\* spring_animate: "if abs_offset > 0.1"
Tolerance == 2
\* springy: ".max(0.2)"
MinStep == 4
\* cur_direction: "let min_and = 8.0"
min_and == 160

\* pointer positions the input is drawn from (x = -160 lies left of the rect)
PtrXs == {-160, 0, 100, 160}
\* the positions a press is drawn from: outside the rect, inside it
PressPos == {[x |-> -160, y |-> 0], [x |-> 0, y |-> 0]}
\* the horizontal motions of a pointer that hovers with no button down
HoverDx == {0, 160}
Pos == [x : PtrXs, y : {0}]

\* ids that may hold egui's drag claim besides the Nav's own drag id
NavDragId == "nav_drag"
\* the drag id of a Nav built with id_source "inner" (Nav::drag_id)
InnerDragId == "inner_nav_drag"
OtherIds == {"other"}

VARIABLES
    offset,          \* State.offset
    action,          \* State.action (also NavResponse.action of the last frame)
    popped_min_rect, \* State.popped_min_rect: "None" or "Some"
    dragged,         \* ctx.dragged_id()
    drag_stopped,    \* ctx.drag_stopped_id()
    drag_state,      \* the DragState stored under state_id(): <<>> or <<rec>>
    pointer,         \* egui's PointerState at the end of the last frame
    navigating,      \* Nav.navigating of the last frame
    returning,       \* Nav.returning of the last frame
    route_len,       \* Nav.route.len() of the last frame
    drag_resp,       \* what Drag::handle returned in the last frame
    repaint,         \* whether the last frame called request_repaint
    sp_offset,       \* spring exploration: the current offset
    sp_target,       \* spring exploration: the target
    sp_prev,         \* spring exploration: the offset before the last call
    sp_res,          \* spring exploration: "Start", "Some" or "None"
    inner,           \* the State and last drag response of a Nav shown inside
                     \* the Nav's body, or "Absent"
    dh,              \* one call of Drag::handle: its inputs and its result
    ctor,            \* one construction: the routes given, the Nav and Router built
    cd,              \* one call of cur_direction: its inputs and its result
    tn,              \* one call of top_n: the stack, the argument and the results
    hr,              \* one surface arming its action: the State, the drag's
                     \* outcome and the host's requests, and the State armed
    drawer,          \* a NavDrawer: its State, its builder's fields and its
                     \* last frame, or "Absent"
    router,          \* a Router: its routes and flags, the value its last
                     \* operation returned and the operations so far, or "Absent"
    hc               \* calls of the Dragging arm of NavAction::handle: the
                     \* bounds, the Offset and the last pointer delta

navVars == <<offset, action, popped_min_rect, dragged, drag_stopped, drag_state,
             pointer, navigating, returning, route_len, drag_resp, repaint>>
springVars == <<sp_offset, sp_target, sp_prev, sp_res>>
callVars == <<dh, ctor, cd, tn, hr, drawer, router, hc>>
vars == <<offset, action, popped_min_rect, dragged, drag_stopped, drag_state,
          pointer, navigating, returning, route_len, drag_resp,
          repaint, sp_offset, sp_target, sp_prev, sp_res, inner, dh, ctor, cd, tn, hr,
          drawer, router, hc>>

Abs(n) == IF n < 0 THEN -n ELSE n
Max(a, b) == IF a > b THEN a ELSE b
signum(n) == IF n > 0 THEN 1 ELSE IF n < 0 THEN -1 ELSE 1

\* ------------------------------------------------------------ spring math
\* springy with the 0.2 floor left out
springy_NoFloor(off) == (3 * Abs(off)) \div 10

springy(off) == Max((3 * Abs(off)) \div 10, MinStep)

spring_animate(off, target, left) ==
    IF (left /\ off <= target) \/ (~left /\ off >= target) THEN <<>>
    ELSE LET abs_offset == Abs(off - target)
             sgn == signum(off - target)
             amt == springy(abs_offset)
             adj == amt * (IF left THEN -1 ELSE 1)
             adjusted == off + adj
         IN IF abs_offset > Tolerance
            THEN IF signum(off - adj - target) # sgn THEN <<>> ELSE <<adjusted>>
            ELSE <<>>

\* ------------------------------------------------------------- NavAction
Returning(return_type) ==
    IF return_type = "Drag" THEN "Returning(Drag)" ELSE "Returning(Click)"
Returned(return_type) ==
    IF return_type = "Drag" THEN "Returned(Drag)" ELSE "Returned(Click)"
IsReturning(a) == a \in {"Returning(Drag)", "Returning(Click)"}
IsReturned(a) == a \in {"Returned(Drag)", "Returned(Click)"}
ReturnTypeOf(a) == IF a \in {"Returning(Drag)", "Returned(Drag)"} THEN "Drag" ELSE "Click"

NavActions == {"Returning(Drag)", "Returning(Click)", "Resetting", "Dragging",
               "Returned(Drag)", "Returned(Click)", "Navigating", "Navigated"}

\* is_transitioning with the Navigating arm answering false
is_transitioning_NotWhileNavigating(a) == IsReturning(a) \/ a \in {"Resetting", "Dragging"}

is_transitioning(a) == IsReturning(a) \/ a \in {"Resetting", "Dragging", "Navigating"}

\* drag_delta: the pointer's motion along the axis of the accepted directions
drag_delta(delta, direction) ==
    IF direction \cap {"LeftToRight", "RightToLeft"} # {} THEN delta.x
    ELSE IF "Vertical" \in direction THEN delta.y
    ELSE 0

\* the Dragging arm with the clamp at the navigated boundary left out
Dragging_NoNavigatedClamp(state, delta, drag_direction, navigated_offset, returned_offset) ==
    LET moved == state.offset + drag_delta(delta, drag_direction)
    IN IF navigated_offset < returned_offset
       THEN [state EXCEPT !.offset = IF moved > returned_offset THEN returned_offset ELSE moved]
       ELSE IF navigated_offset > returned_offset
       THEN [state EXCEPT !.offset = IF moved < returned_offset THEN returned_offset ELSE moved]
       ELSE [state EXCEPT !.offset = moved]

\* NavAction::handle, the Dragging arm
HandleDragging(state, delta, drag_direction, navigated_offset, returned_offset) ==
    LET moved == state.offset + drag_delta(delta, drag_direction)
    IN IF navigated_offset < returned_offset
       THEN LET lo == IF moved < navigated_offset THEN navigated_offset ELSE moved
                hi == IF lo > returned_offset THEN returned_offset ELSE lo
            IN [state EXCEPT !.offset = hi]
       ELSE IF navigated_offset > returned_offset
       THEN LET hi == IF moved > navigated_offset THEN navigated_offset ELSE moved
                lo == IF hi < returned_offset THEN returned_offset ELSE hi
            IN [state EXCEPT !.offset = lo]
       ELSE [state EXCEPT !.offset = moved]

\* NavAction::handle, the Navigating arm
HandleNavigating(state, navigated_offset) ==
    LET left == state.offset > navigated_offset
        r == spring_animate(state.offset, navigated_offset, left)
    IN IF r # <<>>
       THEN [state EXCEPT !.repaint = TRUE, !.offset = r[1]]
       ELSE [state EXCEPT !.action = "Navigated"]

\* NavAction::handle, the Returning arm
HandleReturning(state, return_type, returned_offset) ==
    LET left == state.offset > returned_offset
        r == spring_animate(state.offset, returned_offset, left)
    IN IF r # <<>>
       THEN [state EXCEPT !.repaint = TRUE, !.offset = r[1]]
       ELSE [state EXCEPT !.offset = returned_offset,
                          !.action = Returned(return_type)]

\* the Resetting arm without its request_repaint
HandleResetting_NoRepaint(state, navigated_offset) ==
    LET left == state.offset > navigated_offset
        r == spring_animate(state.offset, navigated_offset, left)
    IN IF r # <<>>
       THEN [state EXCEPT !.offset = r[1]]
       ELSE [state EXCEPT !.action = "None"]

\* NavAction::handle, the Resetting arm
HandleResetting(state, navigated_offset) ==
    LET left == state.offset > navigated_offset
        r == spring_animate(state.offset, navigated_offset, left)
    IN IF r # <<>>
       THEN [state EXCEPT !.repaint = TRUE, !.offset = r[1]]
       ELSE [state EXCEPT !.action = "None"]

\* the Returned and Navigated arms with the action left in place
HandleSignal_Kept(state) == state

\* NavAction::handle, the Returned and Navigated arms
HandleSignal(state) == [state EXCEPT !.action = "None"]

\* NavAction::handle: self is the action, state the State it updates
handle(self, state, delta, drag_direction, navigated_offset, returned_offset) ==
    CASE self = "Dragging" ->
           HandleDragging(state, delta, drag_direction, navigated_offset, returned_offset)
      [] IsReturned(self) -> HandleSignal(state)
      [] self = "Navigated" -> HandleSignal(state)
      [] self = "Navigating" -> HandleNavigating(state, navigated_offset)
      [] IsReturning(self) -> HandleReturning(state, ReturnTypeOf(self), returned_offset)
      [] self = "Resetting" -> HandleResetting(state, navigated_offset)

\* ------------------------------------------------------- drag interpreter
Balanced == <<"Balanced">>
VerticalNTimesEasier(n) == <<"VerticalNTimesEasier", n>>

\* cur_direction with a tie of |dx| and n * |dy| counted as vertical
cur_direction_VerticalOnTie(start, cur_pos, angle) ==
    LET dx == start.x - cur_pos.x
        dy == start.y - cur_pos.y
        is_vertical == IF angle[1] = "Balanced"
                       THEN Abs(dy) > Abs(dx)
                       ELSE Abs(dy) * angle[2] >= Abs(dx)
    IN IF Abs(dx) < min_and /\ Abs(dy) < min_and THEN "None"
       ELSE IF is_vertical THEN "Vertical"
       ELSE IF dx >= 0 THEN "RightToLeft"
       ELSE "LeftToRight"

\* cur_direction with a deadzone that includes its border
cur_direction_ClosedDeadzone(start, cur_pos, angle) ==
    LET dx == start.x - cur_pos.x
        dy == start.y - cur_pos.y
        is_vertical == IF angle[1] = "Balanced"
                       THEN Abs(dy) > Abs(dx)
                       ELSE Abs(dy) * angle[2] > Abs(dx)
    IN IF Abs(dx) <= min_and /\ Abs(dy) <= min_and THEN "None"
       ELSE IF is_vertical THEN "Vertical"
       ELSE IF dx >= 0 THEN "RightToLeft"
       ELSE "LeftToRight"

\* cur_direction: "None" inside the deadzone, else the direction of the motion
cur_direction(start, cur_pos, angle) ==
    LET dx == start.x - cur_pos.x
        dy == start.y - cur_pos.y
        is_vertical == IF angle[1] = "Balanced"
                       THEN Abs(dy) > Abs(dx)
                       ELSE Abs(dy) * angle[2] > Abs(dx)
    IN IF Abs(dx) < min_and /\ Abs(dy) < min_and THEN "None"
       ELSE IF is_vertical THEN "Vertical"
       ELSE IF dx >= 0 THEN "RightToLeft"
       ELSE "LeftToRight"

\* egui::Rect::contains
RectContains(rect, p) ==
    /\ rect.min.x <= p.x /\ p.x <= rect.max.x
    /\ rect.min.y <= p.y /\ p.y <= rect.max.y

\* Drag::new
NewDrag(id, direction, content_rect, offset_from_rest, threshold, angle) ==
    [id |-> id, direction |-> direction, content_rect |-> content_rect,
     offset_from_rest |-> offset_from_rest, threshold |-> threshold, angle |-> angle]

\* egui's Context::set_dragged_id on the context record ctx
set_dragged_id(ctx, id) ==
    IF ctx.dragged # id
    THEN [ctx EXCEPT !.drag_stopped = IF ctx.dragged # "None" THEN ctx.dragged
                                      ELSE ctx.drag_stopped,
                     !.dragged = id]
    ELSE ctx

\* egui's Context::stop_dragging
stop_dragging(ctx) ==
    IF ctx.dragged # "None"
    THEN [ctx EXCEPT !.drag_stopped = ctx.dragged, !.dragged = "None"]
    ELSE ctx

\* Drag::get_direction
get_direction(self, state) ==
    IF ~RectContains(self.content_rect, state.start_pos) THEN "DirectionInconclusive"
    ELSE IF state.cur_direction \in self.direction THEN "CorrectDirection"
    ELSE "DirectionInconclusive"

\* Drag::handle_dragging with the test against self.direction left out
handle_dragging_AnyDirection(self, ctx, ptr, dragged_id, set_dragged) ==
    IF ptr.origin = <<>> \/ ptr.latest = <<>> THEN [ok |-> FALSE, ctx |-> ctx]
    ELSE LET origin == ptr.origin[1]
             latest == ptr.latest[1]
             dir == cur_direction(origin, latest, self.angle)
         IN IF ~RectContains(self.content_rect, origin) THEN [ok |-> FALSE, ctx |-> ctx]
            ELSE IF dir = "None" THEN [ok |-> FALSE, ctx |-> ctx]
            ELSE LET c1 == [ctx EXCEPT !.drag_state =
                                <<[start_pos |-> origin, cur_direction |-> dir]>>]
                     c2 == IF set_dragged /\ dragged_id # self.id
                           THEN set_dragged_id(c1, self.id) ELSE c1
                 IN [ok |-> TRUE, ctx |-> c2]

\* Drag::handle_dragging: [ok |-> the bool it returns, ctx |-> the context after it]
handle_dragging(self, ctx, ptr, dragged_id, set_dragged) ==
    IF ptr.origin = <<>> \/ ptr.latest = <<>> THEN [ok |-> FALSE, ctx |-> ctx]
    ELSE LET origin == ptr.origin[1]
             latest == ptr.latest[1]
             dir == cur_direction(origin, latest, self.angle)
         IN IF ~RectContains(self.content_rect, origin) THEN [ok |-> FALSE, ctx |-> ctx]
            ELSE IF dir = "None" THEN [ok |-> FALSE, ctx |-> ctx]
            ELSE IF dir \notin self.direction THEN [ok |-> FALSE, ctx |-> ctx]
            ELSE LET c1 == [ctx EXCEPT !.drag_state =
                                <<[start_pos |-> origin, cur_direction |-> dir]>>]
                     c2 == IF set_dragged /\ dragged_id # self.id
                           THEN set_dragged_id(c1, self.id) ELSE c1
                 IN [ok |-> TRUE, ctx |-> c2]

\* Drag::handle: "threshold_met: self.offset_from_rest >= self.threshold"
threshold_met(self) == self.offset_from_rest >= self.threshold

\* drag.rs:47-58 with the test of the press origin left out
DragClaim_AnyOrigin(self, ctx, ptr) ==
    IF /\ ctx.dragged = "None"
       /\ ptr.decided /\ ptr.down
       /\ ptr.origin # <<>>
    THEN set_dragged_id(ctx, self.id) ELSE ctx

\* Drag::handle, drag.rs:47-58: the claim of a new gesture
DragClaim(self, ctx, ptr) ==
    IF /\ ctx.dragged = "None"
       /\ ptr.decided /\ ptr.down
       /\ ptr.origin # <<>>
       /\ RectContains(self.content_rect, ptr.origin[1])
    THEN set_dragged_id(ctx, self.id) ELSE ctx

\* drag.rs:60-72 with every foreign claim treated as one that can be taken
DragOwned_TakesAny(self, ctx, ptr, can_take_drag_id) ==
    IF ctx.dragged = "None" THEN [resp |-> "None", ctx |-> ctx]
    ELSE (LET hd == handle_dragging(self, ctx, ptr, ctx.dragged, TRUE)
          IN [resp |-> IF hd.ok THEN "Dragging" ELSE "None", ctx |-> hd.ctx])

\* drag.rs:60-72 with DragUnrelated reported whatever the offset from rest
DragOwned_UnrelatedAtRest(self, ctx, ptr, can_take_drag_id) ==
    IF ctx.dragged = "None" THEN [resp |-> "None", ctx |-> ctx]
    ELSE IF can_take_drag_id \/ ctx.dragged = self.id
    THEN (LET hd == handle_dragging(self, ctx, ptr, ctx.dragged, can_take_drag_id)
          IN [resp |-> IF hd.ok THEN "Dragging" ELSE "None", ctx |-> hd.ctx])
    ELSE [resp |-> "DragUnrelated", ctx |-> ctx]

\* Drag::handle, drag.rs:60-72: the response while some id holds the claim;
\* [resp |-> the Option<DragAction> so far, ctx |-> the context]
DragOwned(self, ctx, ptr, can_take_drag_id) ==
    IF ctx.dragged = "None" THEN [resp |-> "None", ctx |-> ctx]
    ELSE IF can_take_drag_id \/ ctx.dragged = self.id
    THEN (LET hd == handle_dragging(self, ctx, ptr, ctx.dragged, can_take_drag_id)
          IN [resp |-> IF hd.ok THEN "Dragging" ELSE "None", ctx |-> hd.ctx])
    ELSE [resp |-> IF self.offset_from_rest > 0 THEN "DragUnrelated" ELSE "None",
          ctx |-> ctx]

\* Drag::handle, drag.rs:74-78: the owner ends its drag when the button is up
DragStop(self, r, ptr) ==
    IF r.ctx.dragged = self.id /\ ~ptr.down
    THEN [r EXCEPT !.ctx = stop_dragging(r.ctx)] ELSE r

\* Drag::handle, drag.rs:80-94: the release of a drag this Drag owned
DragStopped(self, r) ==
    IF r.ctx.drag_stopped = self.id
    THEN [resp |-> IF r.ctx.drag_state # <<>>
                   THEN IF get_direction(self, r.ctx.drag_state[1]) = "CorrectDirection"
                        THEN (IF threshold_met(self) THEN "DragReleased(true)"
                              ELSE "DragReleased(false)")
                        ELSE "DragUnrelated"
                   ELSE r.resp,
          ctx |-> [r.ctx EXCEPT !.drag_state = <<>>]]
    ELSE r

\* Drag::handle on the claim as DragClaim left it
DragClaimed(self, ctx, ptr, can_take_from) ==
    DragStopped(self,
                DragStop(self, DragOwned(self, ctx, ptr, ctx.dragged \in can_take_from),
                         ptr))

\* Drag::handle: [resp |-> the Option<DragAction>, ctx |-> the context after it]
DragHandle(self, ctx, ptr, can_take_from) ==
    DragClaimed(self, DragClaim(self, ctx, ptr), ptr, can_take_from)

\* ------------------------------------------------------ Nav::show_internal
\* ui.available_rect_before_wrap(): the rectangle the Nav is shown in
available_rect == [min |-> [x |-> 0, y |-> 0], max |-> [x |-> Width, y |-> Height]]
RectWidth(rect) == rect.max.x - rect.min.x

\* lib.rs:357-367 with DragUnrelated mapped like a release past the threshold
NavFromDrag_UnrelatedReturns(drag_action) ==
    CASE drag_action = "Dragging" -> "Dragging"
      [] drag_action = "DragReleased(true)" -> Returning("Drag")
      [] drag_action = "DragReleased(false)" -> "Resetting"
      [] drag_action = "DragUnrelated" -> Returning("Drag")
      [] OTHER -> "None"

\* lib.rs:357-367: the NavAction a DragAction maps to
NavFromDrag(drag_action) ==
    CASE drag_action = "Dragging" -> "Dragging"
      [] drag_action = "DragReleased(true)" -> Returning("Drag")
      [] drag_action = "DragReleased(false)" -> "Resetting"
      [] drag_action = "DragUnrelated" -> "Resetting"
      [] OTHER -> "None"

\* lib.rs:372-380 with Navigating armed anew in every frame that asks for it
HostRequests_AlwaysRearms(st, nav) ==
    IF nav.navigating
    THEN [st EXCEPT !.offset = RectWidth(available_rect), !.action = "Navigating"]
    ELSE IF nav.returning /\ ~IsReturning(st.action)
    THEN [st EXCEPT !.action = Returning("Click")]
    ELSE st

\* lib.rs:372-380 with the test for an action already Returning left out
HostRequests_AlwaysClick(st, nav) ==
    IF nav.navigating
    THEN IF st.action # "Navigating"
         THEN [st EXCEPT !.offset = RectWidth(available_rect), !.action = "Navigating"]
         ELSE st
    ELSE IF nav.returning
    THEN [st EXCEPT !.action = Returning("Click")]
    ELSE st

\* lib.rs:372-380 with the drag winning over navigating
HostRequests_DragWins(st, nav) ==
    IF nav.navigating
    THEN IF st.action \notin {"Navigating", "Dragging"}
         THEN [st EXCEPT !.offset = RectWidth(available_rect), !.action = "Navigating"]
         ELSE st
    ELSE IF nav.returning /\ ~IsReturning(st.action)
    THEN [st EXCEPT !.action = Returning("Click")]
    ELSE st

\* lib.rs:372-380 with a return request honoured only by an idle Nav
HostRequests_ReturnWhenIdle(st, nav) ==
    IF nav.navigating
    THEN IF st.action # "Navigating"
         THEN [st EXCEPT !.offset = RectWidth(available_rect), !.action = "Navigating"]
         ELSE st
    ELSE IF nav.returning /\ st.action = "None"
    THEN [st EXCEPT !.action = Returning("Click")]
    ELSE st

\* lib.rs:372-380 with Navigating armed from the current offset
HostRequests_KeepOffset(st, nav) ==
    IF nav.navigating
    THEN IF st.action # "Navigating"
         THEN [st EXCEPT !.action = "Navigating"]
         ELSE st
    ELSE IF nav.returning /\ ~IsReturning(st.action)
    THEN [st EXCEPT !.action = Returning("Click")]
    ELSE st

\* lib.rs:372-380: the host's navigating / returning requests
HostRequests(st, nav) ==
    IF nav.navigating
    THEN IF st.action # "Navigating"
         THEN [st EXCEPT !.offset = RectWidth(available_rect), !.action = "Navigating"]
         ELSE st
    ELSE IF nav.returning /\ ~IsReturning(st.action)
    THEN [st EXCEPT !.action = Returning("Click")]
    ELSE st

\* lib.rs:391-393 left out
AfterHandle_NoReset(st) == st

\* lib.rs:391-393: a Returned state is stored with the offset at rest
AfterHandle(st) == IF IsReturned(st.action) THEN [st EXCEPT !.offset = 0] ELSE st

\* lib.rs:259-304 with the cached rectangle dropped outside a transition
ShowLoaded_ForgetsRect(st) ==
    [offset |-> st.offset, action |-> st.action, repaint |-> FALSE,
     popped_min_rect |-> IF is_transitioning(st.action) THEN "Some" ELSE "None"]

\* lib.rs:259-304: the State loaded, with the background's rectangle cached
\* while the Nav is transitioning; repaint records request_repaint
ShowLoaded(st) ==
    [offset |-> st.offset, action |-> st.action, repaint |-> FALSE,
     popped_min_rect |-> IF is_transitioning(st.action) THEN "Some"
                         ELSE st.popped_min_rect]

\* Nav::drag_id: the id is derived from the ui's id and id_source
drag_id(nav) == IF nav.id_source = "None" THEN NavDragId ELSE InnerDragId

\* lib.rs:345-356 with the drag handled whatever the length of the stack
ShowDrag_AnyStack(nav, s0, ctx, ptr, can_take_from) ==
    DragHandle(NewDrag(drag_id(nav), {"LeftToRight"}, available_rect, s0.offset,
                       RectWidth(available_rect) \div 4, Balanced),
               ctx, ptr, can_take_from)

\* lib.rs:345-356: the drag is handled only with a route to go back to
ShowDrag(nav, s0, ctx, ptr, can_take_from) ==
    IF nav.route_len > 1
    THEN DragHandle(NewDrag(drag_id(nav), {"LeftToRight"}, available_rect, s0.offset,
                            RectWidth(available_rect) \div 4, Balanced),
                    ctx, ptr, can_take_from)
    ELSE [resp |-> "None", ctx |-> ctx]

\* lib.rs:357-370: the drag's outcome becomes the action
ShowDragged(s0, d) ==
    IF d.resp # "None" THEN [s0 EXCEPT !.action = NavFromDrag(d.resp)] ELSE s0

\* lib.rs:382-390: the action, if any, handles the frame
ShowHandled(s2, ptr) ==
    IF s2.action # "None"
    THEN handle(s2.action, s2, ptr.delta, {"LeftToRight"}, 0, RectWidth(available_rect))
    ELSE s2

\* lib.rs:357-400 once Drag::handle has returned d
ShowStored(nav, s0, d, ptr) ==
    [state |-> AfterHandle(ShowHandled(HostRequests(ShowDragged(s0, d), nav), ptr)),
     ctx |-> d.ctx, drag_resp |-> d.resp]

\* lib.rs:345-400 on the loaded State s0
ShowLoadedState(nav, s0, ctx, ptr, can_take_from) ==
    ShowStored(nav, s0, ShowDrag(nav, s0, ctx, ptr, can_take_from), ptr)

\* lib.rs:287-290: the Nav of the background, the stack without its top
bg_nav(nav) == [nav EXCEPT !.route_len = nav.route_len - 1]

\* the Navs show_internal hands to show_route in one frame: the Nav itself
\* (title and foreground) and, while the loaded State is transitioning, bg_nav
CallbackNavs(nav, st) ==
    {nav} \cup (IF is_transitioning(st.action) THEN {bg_nav(nav)} ELSE {})

\* the calls of show_route in one frame, in order of the layers they paint:
\* the title, the background (the Body of bg_nav, only while the loaded State
\* is transitioning) and the foreground (the Body of the Nav itself)
RenderCalls(nav, st) ==
    {[ui_type |-> "Title", route_len |-> nav.route_len, layer |-> "Title"],
     [ui_type |-> "Body", route_len |-> nav.route_len, layer |-> "Foreground"]}
    \cup (IF is_transitioning(st.action)
          THEN {[ui_type |-> "Body", route_len |-> bg_nav(nav).route_len,
                 layer |-> "Background"]}
          ELSE {})

\* Nav::show_internal for the Nav nav = [route_len, navigating, returning,
\* id_source], on
\* the stored state st, egui's context ctx and pointer ptr; can_take_from is
\* what the render callback of the foreground returned
show_internal(nav, st, ctx, ptr, can_take_from) ==
    ShowLoadedState(nav, ShowLoaded(st), ctx, ptr, can_take_from)

\* ------------------------------------------------- one frame of the host
\* the subtraction of two positions (egui's Vec2)
PosDiff(a, b) == [x |-> a.x - b.x, y |-> a.y - b.y]

\* egui's pointer has moved too far from the press origin for a click
\* (max_click_dist is 6 px = 120 units)
MovedTooMuch(origin, p) ==
    LET v == PosDiff(p, origin) IN v.x * v.x + v.y * v.y > 120 * 120

\* the pointer while no button is down: the code reads no position then
PointerUp == [down |-> FALSE, origin |-> <<>>, latest |-> <<>>, decided |-> FALSE,
              delta |-> <<>>]

\* egui at the start of a pass: a release ends the drag, a press over another
\* drag-sensing widget starts one, and drag_stopped reports a drag that ended
BeginPass(ctx, ptr, released, other) ==
    LET d1 == IF released THEN "None" ELSE ctx.dragged
        d2 == IF d1 = "None" /\ ptr.down /\ other # "None" THEN other ELSE d1
    IN [ctx EXCEPT !.dragged = d2,
                   !.drag_stopped = IF d2 # ctx.dragged THEN ctx.dragged ELSE "None"]

\* the ids another widget may claim the drag with at the start of this pass
OtherClaims(down) ==
    IF dragged = "None" /\ down THEN OtherIds \cup {"None"} ELSE {"None"}

\* the sets the foreground's render callback may return as can_take_drag_from
\* (the set is read only while another id holds the claim)
CanTakeFrom(other) ==
    IF dragged \in OtherIds \/ other \in OtherIds THEN SUBSET OtherIds ELSE {{}}

\* the frame: egui starts the pass on the new pointer state ptr, whose motion
\* since the last frame is delta; the host builds the Nav and shows it, and
\* the State is stored
Frame(ptr, delta, released, other, nav, can_take_from) ==
    \E r \in {show_internal(nav,
                             [offset |-> offset, action |-> action,
                              popped_min_rect |-> popped_min_rect],
                             BeginPass([dragged |-> dragged,
                                        drag_stopped |-> drag_stopped,
                                        drag_state |-> drag_state],
                                       ptr, released, other),
                             [ptr EXCEPT !.delta = delta], can_take_from)} :
       /\ pointer' = ptr
       /\ offset' = r.state.offset
       /\ action' = r.state.action
       /\ popped_min_rect' = r.state.popped_min_rect
       /\ repaint' = r.state.repaint
       /\ dragged' = r.ctx.dragged
       /\ drag_stopped' = r.ctx.drag_stopped
       /\ drag_state' = r.ctx.drag_state
       /\ drag_resp' = r.drag_resp
       /\ navigating' = nav.navigating
       /\ returning' = nav.returning
       /\ route_len' = nav.route_len
       /\ UNCHANGED <<springVars, inner, callVars>>

\* the Navs the host may build: Nav::new(routes).navigating(..).returning(..)
Navs == [route_len : 1..MaxRoutes, navigating : BOOLEAN, returning : BOOLEAN,
         id_source : {"None"}]

\* a frame in which the primary button is pressed at p
FramePress ==
    /\ ~pointer.down
    /\ \E p \in PressPos, nav \in Navs, other \in OtherClaims(TRUE) :
       \E can_take_from \in CanTakeFrom(other) :
         Frame([down |-> TRUE, origin |-> <<p>>, latest |-> <<p>>, decided |-> FALSE,
                delta |-> <<>>],
               [x |-> 0, y |-> 0], FALSE, other, nav, can_take_from)

\* a frame in which the primary button is released
FrameRelease ==
    /\ pointer.down
    /\ \E nav \in Navs :
         Frame(PointerUp, [x |-> 0, y |-> 0], TRUE, "None", nav, {})

\* a frame with the button held: the pointer moves to p (or stays), and the
\* press becomes a drag by distance or by time
FrameMove ==
    /\ pointer.down
    /\ \E p \in Pos, nav \in Navs, other \in OtherClaims(TRUE) :
       \E can_take_from \in CanTakeFrom(other),
          timeUp \in (IF pointer.decided \/ MovedTooMuch(pointer.origin[1], p)
                      THEN {FALSE} ELSE BOOLEAN) :
         Frame([pointer EXCEPT
                  !.latest = <<p>>,
                  !.decided = \/ pointer.decided
                              \/ timeUp
                              \/ MovedTooMuch(pointer.origin[1], p)],
               PosDiff(p, pointer.latest[1]), FALSE, other, nav, can_take_from)

\* a frame with no button down: the pointer hovers by dx (its motion is read
\* only by the Dragging arm of NavAction::handle)
FrameIdle ==
    /\ ~pointer.down
    /\ \E dx \in (IF action = "Dragging" THEN HoverDx ELSE {0}), nav \in Navs :
         Frame(PointerUp, [x |-> dx, y |-> 0], FALSE, "None", nav, {})

\* a fresh surface: State::default(), nothing dragged, no button down
NavInit ==
    /\ offset = 0
    /\ action = "None"
    /\ popped_min_rect = "None"
    /\ dragged = "None"
    /\ drag_stopped = "None"
    /\ drag_state = <<>>
    /\ pointer = PointerUp
    /\ navigating = FALSE
    /\ returning = FALSE
    /\ route_len = 1
    /\ drag_resp = "None"
    /\ repaint = FALSE

\* no spring exploration, no Nav inside the Nav, no single call under study
SpringIdle == sp_offset = 0 /\ sp_target = 0 /\ sp_prev = 0 /\ sp_res = "Start"
NoInner == inner = "Absent"
NoCalls ==
    /\ dh = "NoCall" /\ ctor = "NoCall" /\ cd = "NoCall" /\ tn = "NoCall"
    /\ hr = "NoCall" /\ hc = "NoCall"
    /\ drawer = "Absent" /\ router = "Absent"

Init ==
    /\ NavInit
    /\ SpringIdle
    /\ NoInner
    /\ NoCalls

Next == FramePress \/ FrameRelease \/ FrameMove \/ FrameIdle

Spec == Init /\ [][Next]_vars

\* a host whose route stack always holds a single route
SingleRouteSpec == Init /\ [][(Next /\ route_len' = 1)]_vars

\* a host that, once it has passed navigating=true, passes it in every frame
\* until the Nav reports Navigated, while no drag action reaches the Nav
PushHost ==
    (navigating /\ action # "Navigated") => (navigating' /\ drag_resp' = "None")

\* the frames of that host: the pointer is pressed and released but never
\* moved while held, and no button is down in a frame that asks for the push
PushNext ==
    /\ FramePress \/ FrameRelease \/ FrameIdle
    /\ PushHost
    /\ navigating' => ~pointer'.down

\* a frame that called request_repaint is followed by another frame
PushSpec == Init /\ [][PushNext]_vars /\ WF_vars(repaint /\ (FrameIdle /\ PushHost))

\* ------------------------------------------- the spring step on its own
\* spring_animate called the way NavAction::handle calls it, frame after
\* frame, from every offset and target in range, until it returns None

SpringInit ==
    /\ NavInit
    /\ sp_offset \in -MaxSpring..MaxSpring
    /\ sp_target \in {-(MaxSpring \div 2), 0, MaxSpring}
    /\ sp_prev = sp_offset
    /\ sp_res = "Start"
    /\ NoInner
    /\ NoCalls

\* one call: left = offset > target as in the Navigating, Returning and
\* Resetting arms; Some(next) is stored, None ends the animation
SpringStep ==
    /\ sp_res # "None"
    /\ LET r == spring_animate(sp_offset, sp_target, sp_offset > sp_target)
       IN /\ sp_prev' = sp_offset
          /\ sp_offset' = IF r # <<>> THEN r[1] ELSE sp_offset
          /\ sp_res' = IF r # <<>> THEN "Some" ELSE "None"
    /\ UNCHANGED <<sp_target, navVars, inner, callVars>>

\* every Some is followed by request_repaint, so the next call always comes
SpringSpec == SpringInit /\ [][(SpringStep)]_vars /\ WF_vars(SpringStep)

\* ------------------------------------------------ a Nav inside a Nav
\* the body of the outer Nav's top route shows an inner Nav (id_source
\* "inner"); both have a route to go back to and the host requests nothing
OuterNav == [route_len |-> 2, navigating |-> FALSE, returning |-> FALSE,
             id_source |-> "None"]

\* one frame: egui starts the pass, the outer Nav renders its foreground, in
\* which the inner Nav runs show_internal to its end, and the outer Nav then
\* handles the drag with the can_take_drag_from its render callback returned
NestedFrame(ptr, delta, released, can_take_from) ==
    \E ri \in {show_internal([route_len |-> 2, navigating |-> FALSE,
                               returning |-> FALSE, id_source |-> "inner"],
                              [offset |-> inner.offset, action |-> inner.action,
                               popped_min_rect |-> inner.popped_min_rect],
                              BeginPass([dragged |-> dragged,
                                         drag_stopped |-> drag_stopped,
                                         drag_state |-> drag_state],
                                        ptr, released, "None"),
                              [ptr EXCEPT !.delta = delta], {})} :
      \E ro \in {show_internal(OuterNav,
                                [offset |-> offset, action |-> action,
                                 popped_min_rect |-> popped_min_rect],
                                ri.ctx, [ptr EXCEPT !.delta = delta], can_take_from)} :
        /\ inner' = [offset |-> ri.state.offset, action |-> ri.state.action,
                     popped_min_rect |-> ri.state.popped_min_rect,
                     drag_resp |-> ri.drag_resp]
        /\ pointer' = ptr
        /\ offset' = ro.state.offset
        /\ action' = ro.state.action
        /\ popped_min_rect' = ro.state.popped_min_rect
        /\ repaint' = (ro.state.repaint \/ ri.state.repaint)
        /\ dragged' = ro.ctx.dragged
        /\ drag_stopped' = ro.ctx.drag_stopped
        /\ drag_state' = ro.ctx.drag_state
        /\ drag_resp' = ro.drag_resp
        /\ navigating' = OuterNav.navigating
        /\ returning' = OuterNav.returning
        /\ route_len' = OuterNav.route_len
        /\ UNCHANGED <<springVars, callVars>>

\* what the outer Nav's render callback may return as can_take_drag_from
NestedTakes == SUBSET {InnerDragId}

NestedPress ==
    /\ ~pointer.down
    /\ \E p \in PressPos, can_take_from \in NestedTakes :
         NestedFrame([down |-> TRUE, origin |-> <<p>>, latest |-> <<p>>,
                      decided |-> FALSE, delta |-> <<>>],
                     [x |-> 0, y |-> 0], FALSE, can_take_from)

NestedRelease ==
    /\ pointer.down
    /\ \E can_take_from \in NestedTakes :
         NestedFrame(PointerUp, [x |-> 0, y |-> 0], TRUE, can_take_from)

NestedMove ==
    /\ pointer.down
    /\ \E p \in Pos, can_take_from \in NestedTakes :
       \E timeUp \in (IF pointer.decided \/ MovedTooMuch(pointer.origin[1], p)
                      THEN {FALSE} ELSE BOOLEAN) :
         NestedFrame([pointer EXCEPT
                        !.latest = <<p>>,
                        !.decided = \/ pointer.decided
                                    \/ timeUp
                                    \/ MovedTooMuch(pointer.origin[1], p)],
                     PosDiff(p, pointer.latest[1]), FALSE, can_take_from)

NestedIdle ==
    /\ ~pointer.down
    /\ \E can_take_from \in NestedTakes :
         NestedFrame(PointerUp, [x |-> 0, y |-> 0], FALSE, can_take_from)

\* both Navs are fresh and shown with two routes
NestedInit ==
    /\ NavInit
    /\ SpringIdle
    /\ NoCalls
    /\ inner = [offset |-> 0, action |-> "None", popped_min_rect |-> "None",
                drag_resp |-> "None"]

NestedSpec == NestedInit /\ [][(NestedPress \/ NestedRelease \/ NestedMove \/ NestedIdle)]_vars

\* ------------------------------------------- Drag::handle on its own
\* the Drags built by Nav (LeftToRight, Balanced, a quarter of the width) and
\* by NavDrawer (every direction when focused, VerticalNTimesEasier(5), 0.1)
\* at rest, away from it, or just below it (the residue an animation leaves)
AllDirections == {"LeftToRight", "RightToLeft", "Vertical"}

\* one call of Drag::handle; a drag is claimed only while the button is down.
\* ctx is egui's interaction state and the DragState stored under
\* state_id(); ptr is the pointer: up, or held after a press at origin, now
\* at latest
DragInit ==
    /\ NavInit
    /\ SpringIdle
    /\ NoInner
    /\ drawer = "Absent" /\ router = "Absent" /\ hc = "NoCall"
    /\ ctor = "NoCall" /\ cd = "NoCall" /\ tn = "NoCall" /\ hr = "NoCall"
    /\ dh \in {d \in [self : [id : {NavDragId},
                              direction : {{"LeftToRight"}, AllDirections},
                              content_rect : {available_rect},
                              offset_from_rest : {-Tolerance, 0, Width \div 4},
                              threshold : {Tolerance, Width \div 4},
                              angle : {Balanced, VerticalNTimesEasier(5)}],
                      ctx : {c \in [dragged : {"None", NavDragId} \cup OtherIds,
                                    drag_stopped : {"None", NavDragId} \cup OtherIds,
                                    drag_state :
                                        {<<>>} \cup
                                        {<<[start_pos |-> o, cur_direction |-> d]>> :
                                             o \in PressPos, d \in AllDirections}] :
                                 c.drag_stopped = "None" \/ c.drag_stopped # c.dragged},
                      ptr : {PointerUp} \cup
                            {p \in [down : {TRUE}, origin : {<<o>> : o \in PressPos},
                                    latest : {<<l>> : l \in [x : PtrXs,
                                                              y : {0, 40, 200}]},
                                    decided : BOOLEAN, delta : {<<>>}] :
                                 MovedTooMuch(p.origin[1], p.latest[1]) => p.decided},
                      can_take_from : SUBSET OtherIds, out : {<<>>}] :
                 d.ptr.down \/ d.ctx.dragged = "None"}

CallDragHandle ==
    /\ dh.out = <<>>
    /\ dh' = [dh EXCEPT !.out = <<DragHandle(dh.self, dh.ctx, dh.ptr, dh.can_take_from)>>]
    /\ UNCHANGED <<navVars, springVars, inner, drawer, router, hc, ctor, cd, tn, hr>>

DragSpec == DragInit /\ [][(CallDragHandle)]_vars

\* ------------------------------------------- cur_direction on its own
\* one pixel in the model's units
Px == 20
\* the press origins and pointer positions of the calls: a press at the
\* corner or inside the rectangle, the pointer within MaxDrag px of it
ClassifyDeltas == {Px * k : k \in -MaxDrag..MaxDrag}

\* the angle policies: Balanced, and VerticalNTimesEasier(n) for the least
\* and the greatest u8, the 5 of NavDrawer and two small factors
ClassifyInit ==
    /\ NavInit
    /\ SpringIdle
    /\ NoInner
    /\ drawer = "Absent" /\ router = "Absent" /\ hc = "NoCall"
    /\ dh = "NoCall" /\ ctor = "NoCall" /\ tn = "NoCall" /\ hr = "NoCall"
    /\ cd \in {[start |-> st, cur_pos |-> [x |-> st.x + ddx, y |-> st.y + ddy],
                angle |-> a, out |-> <<>>] :
                 st \in {[x |-> 0, y |-> 0], [x |-> 2 * Px, y |-> Px]}, ddx \in ClassifyDeltas,
                 ddy \in ClassifyDeltas,
                 a \in {Balanced} \cup {VerticalNTimesEasier(n) : n \in {0, 1, 2, 5, 255}}}

CallCurDirection ==
    /\ cd.out = <<>>
    /\ cd' = [cd EXCEPT !.out = <<cur_direction(cd.start, cd.cur_pos, cd.angle)>>]
    /\ UNCHANGED <<navVars, springVars, inner, drawer, router, hc, dh, ctor, tn, hr>>

ClassifySpec == ClassifyInit /\ [][(CallCurDirection)]_vars

\* --------------------------------- how the three surfaces arm an action
\* PopupSheet::new: split_percentage is Percent(50)
SplitPercent == 50
\* PopupSheet: max_height = rect.top() + split_percentage.of(rect.height())
\* and content_rect.bottom(), for the rectangle the Nav is modelled in
SheetMaxHeight == available_rect.min.y + (SplitPercent * Height) \div 100
SheetBottom == available_rect.max.y
\* NavDrawer: the drawer_end_offset the host sets, three quarters of the width
DrawerEnd == (3 * Width) \div 4

\* lib.rs:357-380: Nav stores the drag's outcome, then the host's requests
NavArmed(st, drag_action, s) ==
    HostRequests(ShowDragged(st, [resp |-> drag_action]), s)

\* popup_sheet.rs:113-127 with a return request that leaves the Offset alone
SheetArmed_ReturnKeepsOffset(st, drag_action, s) ==
    LET s1 == ShowDragged(st, [resp |-> drag_action])
    IN IF s.navigating
       THEN IF s1.action # "Navigating"
            THEN [s1 EXCEPT !.offset = SheetBottom, !.action = "Navigating"]
            ELSE s1
       ELSE IF s.returning /\ ~IsReturning(s1.action)
       THEN [s1 EXCEPT !.action = Returning("Click")]
       ELSE s1

\* popup_sheet.rs:113-127: the sheet stores the drag's outcome, then the
\* host's requests; both requests set the Offset
SheetArmed(st, drag_action, s) ==
    LET s1 == ShowDragged(st, [resp |-> drag_action])
    IN IF s.navigating
       THEN IF s1.action # "Navigating"
            THEN [s1 EXCEPT !.offset = SheetBottom, !.action = "Navigating"]
            ELSE s1
       ELSE IF s.returning /\ ~IsReturning(s1.action)
       THEN [s1 EXCEPT !.offset = SheetMaxHeight, !.action = Returning("Click")]
       ELSE s1

\* drawer.rs:152-170 with a release mapped as if the drawer were never focused
DrawerFromDrag_IgnoresFocus(drag_action, focused) ==
    CASE drag_action = "Dragging" -> "Dragging"
      [] drag_action = "DragReleased(true)" -> "Navigating"
      [] drag_action = "DragReleased(false)" -> Returning("Drag")
      [] drag_action = "DragUnrelated" -> "Resetting"
      [] OTHER -> "None"

\* drawer.rs:149-166: the NavAction a DragAction maps to in a NavDrawer
DrawerFromDrag(drag_action, focused) ==
    CASE drag_action = "Dragging" -> "Dragging"
      [] drag_action = "DragReleased(true)" ->
           (IF focused THEN Returning("Drag") ELSE "Navigating")
      [] drag_action = "DragReleased(false)" ->
           (IF focused THEN "Resetting" ELSE Returning("Drag"))
      [] drag_action = "DragUnrelated" -> "Resetting"
      [] OTHER -> "None"

\* drawer.rs:138-172 with the host's requests applied after the drag's outcome
DrawerArmedAt_HostLast(st, drag_action, s, drawer_end_offset) ==
    LET s1 == IF drag_action # "None"
              THEN [st EXCEPT !.action = DrawerFromDrag(drag_action, s.focused)]
              ELSE st
    IN IF s.navigating
       THEN [s1 EXCEPT !.action = "Navigating"]
       ELSE IF s.returning /\ ~IsReturning(s1.action)
       THEN [s1 EXCEPT !.offset = drawer_end_offset, !.action = Returning("Click")]
       ELSE s1

\* drawer.rs:138-172: the drawer looks at the host's requests first, and the
\* drag's outcome then replaces the action
DrawerArmedAt(st, drag_action, s, drawer_end_offset) ==
    LET s1 == IF s.navigating
              THEN [st EXCEPT !.action = "Navigating"]
              ELSE IF s.returning /\ ~IsReturning(st.action)
              THEN [st EXCEPT !.offset = drawer_end_offset,
                              !.action = Returning("Click")]
              ELSE st
    IN IF drag_action # "None"
       THEN [s1 EXCEPT !.action = DrawerFromDrag(drag_action, s.focused)]
       ELSE s1


\* the State a surface holds when it calls NavAction::handle
Armed(kind, st, drag_action, s) ==
    CASE kind = "Nav" -> NavArmed(st, drag_action, s)
      [] kind = "PopupSheet" -> SheetArmed(st, drag_action, s)
      [] kind = "NavDrawer" -> DrawerArmedAt(st, drag_action, s, DrawerEnd)

\* the inputs: the three surfaces, the Offsets and actions a State may hold,
\* what Drag::handle may yield and the builders' flags
DragActions == {"None", "Dragging", "DragReleased(true)", "DragReleased(false)",
                "DragUnrelated"}

ArmInit ==
    /\ NavInit
    /\ SpringIdle
    /\ NoInner
    /\ drawer = "Absent" /\ router = "Absent" /\ hc = "NoCall"
    /\ dh = "NoCall" /\ ctor = "NoCall" /\ cd = "NoCall" /\ tn = "NoCall"
    /\ hr \in [kind : {"Nav", "PopupSheet", "NavDrawer"},
                st : [offset : {0, Width \div 4, SheetMaxHeight, DrawerEnd, Width},
                      action : NavActions \cup {"None"}],
                drag_action : DragActions,
                s : [navigating : BOOLEAN, returning : BOOLEAN, focused : BOOLEAN],
                out : {<<>>}]

CallArmed ==
    /\ hr.out = <<>>
    /\ hr' = [hr EXCEPT !.out = <<Armed(hr.kind, hr.st, hr.drag_action, hr.s)>>]
    /\ UNCHANGED <<navVars, springVars, inner, drawer, router, hc, dh, ctor, cd, tn>>

ArmSpec == ArmInit /\ [][(CallArmed)]_vars

\* ------------------------------------------------ NavDrawer::show_internal
\* NavDrawer::drag_id
DrawerDragId == "drawer_drag"
\* the threshold handed to Drag::new: 0.1
DrawerThreshold == 2
\* the builders of one frame: NavDrawer::new(..).navigating(..).returning(..)
\* .drawer_focused(..)
NavDrawers == [navigating : BOOLEAN, returning : BOOLEAN, focused : BOOLEAN]

\* drawer.rs:117-136: the Drag of the frame, built on the loaded State
DrawerDrag(nd, st, drawer_end_offset) ==
    NewDrag(DrawerDragId,
            IF nd.focused THEN AllDirections ELSE {"LeftToRight"},
            available_rect,
            IF nd.focused THEN Abs(st.offset - drawer_end_offset) ELSE st.offset,
            DrawerThreshold,
            IF nd.focused THEN Balanced ELSE VerticalNTimesEasier(5))

\* drawer.rs:174-176: the action, if any, handles the frame; the drawer is
\* navigated at drawer_end_offset and returned at rest
DrawerHandled(s2, ptr, drawer_end_offset) ==
    IF s2.action # "None"
    THEN handle(s2.action, s2, ptr.delta, {"LeftToRight"}, drawer_end_offset, 0)
    ELSE s2

\* drawer.rs:138-210 once Drag::handle has returned d; armed is the action
\* NavAction::handle is called on; away from rest, a click on the background
\* closes (drawer.rs:178-190)
DrawerStored(nd, s0, d, ptr, drawer_end_offset, clicked) ==
    [state |-> IF DrawerHandled(DrawerArmedAt(s0, d.resp, nd, drawer_end_offset),
                                ptr, drawer_end_offset).offset # 0 /\ clicked
               THEN [DrawerHandled(DrawerArmedAt(s0, d.resp, nd, drawer_end_offset),
                                   ptr, drawer_end_offset)
                       EXCEPT !.action = Returning("Click")]
               ELSE DrawerHandled(DrawerArmedAt(s0, d.resp, nd, drawer_end_offset),
                                  ptr, drawer_end_offset),
     armed |-> DrawerArmedAt(s0, d.resp, nd, drawer_end_offset).action,
     ctx |-> d.ctx, drag_resp |-> d.resp]

\* NavDrawer::show_internal for the builder nd on the stored State st;
\* can_take_from is what the callback of the background route returned and
\* clicked what bg_resp.clicked() would answer
drawer_show_internal(nd, st, drawer_end_offset, ctx, ptr, can_take_from, clicked) ==
    DrawerStored(nd, [offset |-> st.offset, action |-> st.action, repaint |-> FALSE],
                 DragHandle(DrawerDrag(nd, st, drawer_end_offset), ctx, ptr,
                            can_take_from),
                 ptr, drawer_end_offset, clicked)

\* egui reports a click on the background in the frame of a release that
\* ends a press begun on it and not turned into a drag; a widget above the
\* background may still take the click
DrawerClicks(released) ==
    IF /\ released /\ pointer.origin # <<>> /\ ~pointer.decided
       /\ RectContains(available_rect, pointer.origin[1])
       /\ pointer.origin[1].x >= drawer.offset
    THEN BOOLEAN ELSE {FALSE}

\* the frame: egui starts the pass on the new pointer state, the host builds
\* the NavDrawer and shows it, and the State is stored
DrawerFrame(ptr, delta, released, other, nd, can_take_from, clicked) ==
    \E r \in {drawer_show_internal(nd, drawer, drawer.drawer_end_offset,
                                    BeginPass([dragged |-> dragged,
                                               drag_stopped |-> drag_stopped,
                                               drag_state |-> drag_state],
                                              ptr, released, other),
                                    [ptr EXCEPT !.delta = delta],
                                    can_take_from, clicked)} :
       /\ pointer' = ptr
       /\ dragged' = r.ctx.dragged
       /\ drag_stopped' = r.ctx.drag_stopped
       /\ drag_state' = r.ctx.drag_state
       /\ drawer' = [offset |-> r.state.offset, action |-> r.state.action,
                     repaint |-> r.state.repaint, armed |-> r.armed,
                     drag_resp |-> r.drag_resp, navigating |-> nd.navigating,
                     returning |-> nd.returning, focused |-> nd.focused,
                     drawer_end_offset |-> drawer.drawer_end_offset]
       /\ UNCHANGED <<offset, action, popped_min_rect, navigating, returning,
                      route_len, drag_resp, repaint, springVars, inner,
                      dh, ctor, cd, tn, hr, router, hc>>

\* a press at the left edge of the drawer or at its right edge, which lies in
\* the background while the drawer is open
DrawerPress ==
    /\ ~pointer.down
    /\ \E p \in {[x |-> 0, y |-> 0], [x |-> Width, y |-> 0]}, nd \in NavDrawers,
          other \in OtherClaims(TRUE) :
       \E can_take_from \in CanTakeFrom(other) :
         DrawerFrame([down |-> TRUE, origin |-> <<p>>, latest |-> <<p>>,
                      decided |-> FALSE, delta |-> <<>>],
                     [x |-> 0, y |-> 0], FALSE, other, nd, can_take_from, FALSE)

\* the frame in which the button is released
DrawerRelease ==
    /\ pointer.down
    /\ \E nd \in NavDrawers, clicked \in DrawerClicks(TRUE) :
         DrawerFrame(PointerUp, [x |-> 0, y |-> 0], TRUE, "None", nd, {}, clicked)

\* the pointer moves to the left of the rectangle, to its left edge, to the
\* right of it or below the left edge (a vertical motion)
DrawerMove ==
    /\ pointer.down
    /\ \E p \in {[x |-> -160, y |-> 0], [x |-> 0, y |-> 0], [x |-> 160, y |-> 0],
                [x |-> 0, y |-> 160]},
          nd \in NavDrawers, other \in OtherClaims(TRUE) :
       \E can_take_from \in CanTakeFrom(other),
          timeUp \in (IF pointer.decided \/ MovedTooMuch(pointer.origin[1], p)
                      THEN {FALSE} ELSE BOOLEAN) :
         DrawerFrame([pointer EXCEPT
                        !.latest = <<p>>,
                        !.decided = \/ pointer.decided
                                    \/ timeUp
                                    \/ MovedTooMuch(pointer.origin[1], p)],
                     PosDiff(p, pointer.latest[1]), FALSE, other, nd,
                     can_take_from, FALSE)

DrawerIdle ==
    /\ ~pointer.down
    /\ \E dx \in (IF drawer.action = "Dragging" THEN HoverDx ELSE {0}),
          nd \in NavDrawers :
         DrawerFrame(PointerUp, [x |-> dx, y |-> 0], FALSE, "None", nd, {}, FALSE)

\* a fresh drawer: State::default(); the host opens it to DrawerEnd
DrawerInit ==
    /\ NavInit
    /\ SpringIdle
    /\ NoInner
    /\ dh = "NoCall" /\ ctor = "NoCall" /\ cd = "NoCall" /\ tn = "NoCall" /\ hr = "NoCall"
    /\ router = "Absent" /\ hc = "NoCall"
    /\ drawer \in [offset : {0}, action : {"None"}, repaint : {FALSE},
                    armed : {"None"}, drag_resp : {"None"},
                    navigating : {FALSE}, returning : {FALSE}, focused : {FALSE},
                    drawer_end_offset : {DrawerEnd}]

DrawerSpec == DrawerInit /\ [][(DrawerPress \/ DrawerRelease \/ DrawerMove \/ DrawerIdle)]_vars

\* -------------------------------------- the Dragging arm on its own
\* the bounds handed to NavAction::handle: rest, the width of a Nav, the end
\* of a drawer, and an end left of rest
ClampBounds == {-Width, 0, DrawerEnd, Width}
\* the pointer's motion of one frame on each axis
ClampDeltas == {-Width, -Px, 0, Px, Width}

\* a pair of bounds and a direction are chosen; the Offset starts at one of
\* the bounds
ClampInit ==
    /\ NavInit
    /\ SpringIdle
    /\ NoInner
    /\ dh = "NoCall" /\ ctor = "NoCall" /\ cd = "NoCall" /\ tn = "NoCall" /\ hr = "NoCall"
    /\ drawer = "Absent" /\ router = "Absent"
    /\ hc \in {h \in [navigated_offset : ClampBounds, returned_offset : ClampBounds,
                       drag_direction : {{"LeftToRight"}, {"Vertical"}}, offset : ClampBounds,
                       delta : {[x |-> 0, y |-> 0]}] :
                  h.offset \in {h.navigated_offset, h.returned_offset}}

\* NavAction::Dragging.handle in a frame in which the pointer moved by delta;
\* the Offsets explored are those within MaxDrag px of rest
CallHandleDragging ==
    \E dx \in ClampDeltas, dy \in ClampDeltas :
      \E st \in {HandleDragging([offset |-> hc.offset], [x |-> dx, y |-> dy],
                                hc.drag_direction, hc.navigated_offset,
                                hc.returned_offset)} :
         /\ Abs(st.offset) <= Px * MaxDrag
         /\ hc' = [hc EXCEPT !.offset = st.offset, !.delta = [x |-> dx, y |-> dy]]
         /\ UNCHANGED <<navVars, springVars, inner, dh, ctor, cd, tn, hr, drawer,
                        router>>

ClampSpec == ClampInit /\ [][(CallHandleDragging)]_vars

\* -------------------------------------------------- the constructors
\* the routes a stack is made of
RouteNames == {"Home", "Profile", "Settings"}
RECURSIVE Stacks(_)
Stacks(n) == IF n = 0 THEN {<<>>}
             ELSE Stacks(n - 1) \cup {Append(st, r) : st \in Stacks(n - 1), r \in RouteNames}

\* Nav::new without its assertion
NavNew_Unchecked(route) ==
    [panicked |-> FALSE, id_source |-> "None", navigating |-> FALSE,
     returning |-> FALSE, route |-> route]

\* Nav::new: the assertion fails on an empty slice
NavNew(route) ==
    IF Len(route) = 0 THEN [panicked |-> TRUE]
    ELSE [panicked |-> FALSE, id_source |-> "None", navigating |-> FALSE,
          returning |-> FALSE, route |-> route]

\* Router::new: panics on an empty route list; flags is the set of bits set
RouterNew(routes) ==
    IF Len(routes) = 0 THEN [panicked |-> TRUE]
    ELSE [panicked |-> FALSE, routes |-> routes, flags |-> {}]

\* a stack is chosen, and each constructor is called on it once
CtorInit ==
    /\ NavInit
    /\ SpringIdle
    /\ NoInner
    /\ drawer = "Absent" /\ router = "Absent" /\ hc = "NoCall"
    /\ dh = "NoCall" /\ cd = "NoCall" /\ tn = "NoCall" /\ hr = "NoCall"
    /\ ctor \in [routes : Stacks(MaxStack), nav : {<<>>}, router : {<<>>}]

CallNavNew ==
    /\ ctor.nav = <<>>
    /\ ctor' = [ctor EXCEPT !.nav = <<NavNew(ctor.routes)>>]
    /\ UNCHANGED <<navVars, springVars, inner, drawer, router, hc, dh, cd, tn, hr>>

CallRouterNew ==
    /\ ctor.router = <<>>
    /\ ctor' = [ctor EXCEPT !.router = <<RouterNew(ctor.routes)>>]
    /\ UNCHANGED <<navVars, springVars, inner, drawer, router, hc, dh, cd, tn, hr>>

CtorSpec == CtorInit /\ [][(CallNavNew \/ CallRouterNew)]_vars

\* ------------------------------------------------------------- the Router
\* a Router is [routes |-> the owned Vec, flags |-> the set of bits set]

set_flag(r, flag, value) ==
    [r EXCEPT !.flags = IF value THEN @ \cup {flag} ELSE @ \ {flag}]
set_returning(r, value) == set_flag(r, "RETURNING", value)
set_navigating(r, value) == set_flag(r, "NAVIGATING", value)
set_replacing(r, value) == set_flag(r, "REPLACING", value)
is_returning(r) == "RETURNING" \in r.flags

\* what an operation yields: [r |-> the Router after it, ret |-> the Option
\* it returns, <<>> or <<route>>]
RouterDone(r, ret) == [r |-> r, ret |-> ret]

navigate(r, route) ==
    RouterDone([set_navigating(r, TRUE) EXCEPT !.routes = Append(@, route)], <<>>)

route_to_replaced(r, route) ==
    RouterDone([set_replacing(set_navigating(r, TRUE), TRUE)
                  EXCEPT !.routes = Append(@, route)], <<>>)

\* Router::prev: self.routes().get(rlen - 2); go_back calls it with two
\* routes or more
prev(r) ==
    IF Len(r.routes) >= 2 THEN <<r.routes[Len(r.routes) - 1]>> ELSE <<>>

\* go_back without the test of is_returning
go_back_WhileReturning(r) ==
    IF Len(r.routes) = 1 THEN RouterDone(r, <<>>)
    ELSE RouterDone(set_returning(r, TRUE), prev(r))

go_back(r) ==
    IF is_returning(r) \/ Len(r.routes) = 1 THEN RouterDone(r, <<>>)
    ELSE RouterDone(set_returning(r, TRUE), prev(r))

\* Vec::pop
VecPop(v) ==
    IF Len(v) = 0 THEN [v |-> v, ret |-> <<>>]
    ELSE [v |-> SubSeq(v, 1, Len(v) - 1), ret |-> <<v[Len(v)]>>]

\* pop without the test for a single route
pop_LastRoute(r) ==
    RouterDone([set_returning(r, FALSE) EXCEPT !.routes = VecPop(@).v],
               VecPop(r.routes).ret)

\* pop with the RETURNING flag left as it is
pop_KeepsReturning(r) ==
    IF Len(r.routes) = 1 THEN RouterDone(r, <<>>)
    ELSE RouterDone([r EXCEPT !.routes = VecPop(@).v], VecPop(r.routes).ret)

pop(r) ==
    IF Len(r.routes) = 1 THEN RouterDone(r, <<>>)
    ELSE RouterDone([set_returning(r, FALSE) EXCEPT !.routes = VecPop(@).v],
                    VecPop(r.routes).ret)

\* Router::top: expect() panics on an empty list
top(r) ==
    IF Len(r.routes) = 0 THEN [panicked |-> TRUE, value |-> <<>>]
    ELSE [panicked |-> FALSE, value |-> <<r.routes[Len(r.routes)]>>]

\* Router::borrow and Router::borrow_popped: a Router over a slice
borrow(r) == [routes |-> r.routes, flags |-> r.flags]
borrow_popped(r) ==
    IF Len(r.routes) < 2 THEN borrow(r)
    ELSE [routes |-> SubSeq(r.routes, 1, Len(r.routes) - 1), flags |-> r.flags]

\* the operation op has been called: r is the Router after it, ret what it
\* returned, borrowed the Router borrow_popped built and panicked whether
\* the call panicked; run counts the calls navigate, go_back, pop made in
\* a row, and base holds the routes before that navigate
RouterCalled(op, r, ret, borrowed, panicked) ==
    \E n \in {IF op = "navigate" THEN 1
               ELSE IF op = "go_back" /\ router.run = 1 THEN 2
               ELSE IF op = "pop" /\ router.run = 2 THEN 3
               ELSE 0} :
       /\ router' = [r |-> r, op |-> op, ret |-> ret, borrowed |-> borrowed,
                     panicked |-> panicked, before |-> router.r, run |-> n,
                     base |-> IF op = "navigate" THEN router.r.routes
                              ELSE IF n > 0 THEN router.base ELSE <<>>]
       /\ UNCHANGED <<navVars, springVars, inner, dh, ctor, cd, tn, hr, drawer, hc>>

CallNavigate ==
    /\ Len(router.r.routes) < MaxStack
    /\ \E route \in RouteNames : \E d \in {navigate(router.r, route)} :
         RouterCalled("navigate", d.r, d.ret, <<>>, FALSE)

CallRouteToReplaced ==
    /\ Len(router.r.routes) < MaxStack
    /\ \E route \in RouteNames : \E d \in {route_to_replaced(router.r, route)} :
         RouterCalled("route_to_replaced", d.r, d.ret, <<>>, FALSE)

CallGoBack ==
    \E d \in {go_back(router.r)} : RouterCalled("go_back", d.r, d.ret, <<>>, FALSE)

CallPop ==
    \E d \in {pop(router.r)} : RouterCalled("pop", d.r, d.ret, <<>>, FALSE)

CallSetReturning ==
    \E value \in BOOLEAN :
       RouterCalled("set_returning", set_returning(router.r, value), <<>>, <<>>, FALSE)

CallSetNavigating ==
    \E value \in BOOLEAN :
       RouterCalled("set_navigating", set_navigating(router.r, value), <<>>, <<>>, FALSE)

CallSetReplacing ==
    \E value \in BOOLEAN :
       RouterCalled("set_replacing", set_replacing(router.r, value), <<>>, <<>>, FALSE)

CallTop ==
    \E t \in {top(router.r)} :
       RouterCalled("top", router.r, t.value, <<>>, t.panicked)

CallBorrowPopped ==
    RouterCalled("borrow_popped", router.r, <<>>, <<borrow_popped(router.r)>>, FALSE)

\* Router::new over an owned, non-empty list of routes
RouterInit ==
    /\ NavInit
    /\ SpringIdle
    /\ NoInner
    /\ dh = "NoCall" /\ ctor = "NoCall" /\ cd = "NoCall" /\ tn = "NoCall" /\ hr = "NoCall"
    /\ drawer = "Absent" /\ hc = "NoCall"
    /\ \E routes \in Stacks(MaxStack) \ {<<>>} :
         router = [r |-> [routes |-> RouterNew(routes).routes,
                          flags |-> RouterNew(routes).flags],
                   op |-> "new", ret |-> <<>>, borrowed |-> <<>>,
                   panicked |-> RouterNew(routes).panicked,
                   before |-> [routes |-> routes, flags |-> {}],
                   run |-> 0, base |-> <<>>]

RouterSpec ==
    RouterInit /\ [][(\/ CallNavigate \/ CallRouteToReplaced \/ CallGoBack
                      \/ CallPop \/ CallSetReturning \/ CallSetNavigating
                      \/ CallSetReplacing \/ CallTop \/ CallBorrowPopped)]_vars

\* ------------------------------------------------------- top_n on its own
\* i32::MAX and i32::MIN
MaxI32 == 2147483647
MinI32 == -MaxI32 - 1

\* a - b on i32: [overflow |-> whether the result leaves the i32 range,
\* value |-> the result wrapped modulo 2^32]
SubI32(a, b) ==
    IF b < 0 /\ a > MaxI32 + b
    THEN [overflow |-> TRUE, value |-> (a - MaxI32) - (b - MinI32) - 1]
    ELSE IF b > 0 /\ a < MinI32 + b
    THEN [overflow |-> TRUE, value |-> (a - MinI32) - (b - MaxI32) + 1]
    ELSE [overflow |-> FALSE, value |-> a - b]

\* what top_n returns: a panic, or the Option<&Route> as <<>> or <<route>>
TopNReturn(v) == [panicked |-> FALSE, value |-> v]

\* util::arr_top_n; overflow_checks is the build's setting: an overflowing
\* subtraction panics with it and wraps without it
arr_top_n(ts, n, overflow_checks) ==
    LET s1 == SubI32(Len(ts), n.lo)
        s2 == SubI32(s1.value, 1)
        ind == s2.value
    IN IF overflow_checks /\ (s1.overflow \/ s2.overflow) THEN [panicked |-> TRUE, value |-> <<>>]
       ELSE IF ind < 0 THEN TopNReturn(<<>>)
       ELSE IF ind < Len(ts) THEN TopNReturn(<<ts[ind + 1]>>)
       ELSE TopNReturn(<<>>)

\* a stack of at least one route and an argument are chosen, and top_n is
\* called on a Nav and on a Router over that stack. The usize argument is
\* the pair of its upper 32 bits (hi, as a number) and its lower 32 bits (lo,
\* read as a two's-complement i32; "n as i32" keeps the lower 32 bits): the
\* upper half zero or not, the lower half small, at the ends of the i32
\* range and just inside them
TopNInit ==
    /\ NavInit
    /\ SpringIdle
    /\ NoInner
    /\ drawer = "Absent" /\ router = "Absent" /\ hc = "NoCall"
    /\ dh = "NoCall" /\ ctor = "NoCall" /\ cd = "NoCall" /\ hr = "NoCall"
    /\ tn \in [routes : Stacks(MaxStack) \ {<<>>},
                n : [hi : {0, 1},
                     lo : {0, 1, 2, 3, 4, MaxI32, MinI32, MinI32 + 1, MinI32 + 3,
                           -2, -1}],
                nav : {<<>>}, router : {<<>>}]

\* Nav::top_n
CallNavTopN ==
    /\ tn.nav = <<>>
    /\ \E overflow_checks \in BOOLEAN :
         tn' = [tn EXCEPT !.nav = <<arr_top_n(tn.routes, tn.n, overflow_checks)>>]
    /\ UNCHANGED <<navVars, springVars, inner, drawer, router, hc, dh, ctor, cd, hr>>

\* Router::top_n
CallRouterTopN ==
    /\ tn.router = <<>>
    /\ \E overflow_checks \in BOOLEAN :
         tn' = [tn EXCEPT !.router = <<arr_top_n(tn.routes, tn.n, overflow_checks)>>]
    /\ UNCHANGED <<navVars, springVars, inner, drawer, router, hc, dh, ctor, cd, hr>>

TopNSpec == TopNInit /\ [][(CallNavTopN \/ CallRouterTopN)]_vars

\* ------------------------------------------------------------ properties
\* the release threshold handed to Drag::new: a quarter of the content width
DragReleased == {"DragReleased(true)", "DragReleased(false)"}

\* C1: a release in the accepted direction makes the Nav's action
\* Returning(Drag) if the offset from rest exceeds a quarter of the width,
\* and Resetting otherwise
C1_ReleaseExceedsThreshold ==
    [][drag_resp' \in DragReleased =>
         NavFromDrag(drag_resp') = (IF offset > (RectWidth(available_rect) \div 4)
                                    THEN Returning("Drag") ELSE "Resetting")]_vars

C3_DraggingOffsetClamped == action = "Dragging" => (0 <= offset /\ offset <= Width)

\* a drag that has moved left of its press origin and is held at rest
C3_Witness ==
    /\ action = "Dragging" /\ offset = 0 /\ pointer.down
    /\ pointer.latest[1].x < pointer.origin[1].x

\* C4: the frame after a reported Returned(_) or Navigated, with no drag
\* event and neither navigating nor returning passed, stores and reports no
\* action
C4_OneFrameSignals ==
    [][((IsReturned(action) \/ action = "Navigated")
        /\ drag_resp' = "None" /\ ~navigating' /\ ~returning') =>
         action' = "None"]_vars

\* a Returned(Drag) reported to a host that passes no request
C4_Witness == action = "Returned(Drag)" /\ ~navigating /\ ~returning

\* C5 as stated: whenever Returned(c) is reported the action of the
\* preceding frame was Returning(c)
C5_ReturnedAfterReturning ==
    [][IsReturned(action') => action = Returning(ReturnTypeOf(action'))]_vars

\* C5 amended: whenever Returned(c) is reported, Returning(c) was the action
\* of the preceding frame or was armed in this frame (c = Drag by a release
\* that met the threshold, c = Click by returning=true); and in a frame with
\* no drag event returning=true leaves the cause of a Returning(Drag) alone
C5_CausePreserved ==
    [][/\ IsReturned(action') =>
            \/ action = Returning(ReturnTypeOf(action'))
            \/ action' = "Returned(Drag)" /\ drag_resp' = "DragReleased(true)"
            \/ action' = "Returned(Click)" /\ returning' /\ ~navigating'
       /\ (action = "Returning(Drag)" /\ drag_resp' = "None"
           /\ returning' /\ ~navigating') =>
            action' \in {"Returning(Drag)", "Returned(Drag)"}]_vars

\* a release at full displacement: Returned(Drag) in the frame of the release
C5_Witness == action = "Returned(Drag)" /\ drag_resp = "DragReleased(true)"

\* C6 as stated: the frame that reports Returned(_) stores the Offset at the
\* fully-displaced bound, the content width
C6_ReturnedAtWidth == IsReturned(action) => offset = Width

\* C6 amended: the frame that reports Returned(_) stores the Offset at rest,
\* and a Returning animation that no drag event or navigate request
\* interrupts reports Returned in the frame that starts with the Offset
\* within the tolerance of the width
C6_ReturnedAtRest ==
    /\ [](IsReturned(action) => offset = 0)
    /\ [][(IsReturning(action) /\ drag_resp' = "None" /\ ~navigating') =>
            (IsReturned(action') <=> Abs(Width - offset) <= Tolerance)]_vars

C6_Witness == action = "Returned(Click)" /\ returning /\ drag_resp = "None"

\* C7: a push armed at the width and stepped with no drag input reaches
\* Navigated with the stored Offset exactly at rest
C7_NavigatedAtRest == action = "Navigated" => offset = 0

\* C8: whenever the stored action is None the stored Offset is exactly 0
C8_IdleAtRest == action = "None" => offset = 0

\* C9: a Some(next) returned by spring_animate never lies on the other side
\* of the target from the offset it was called with
C9_NeverOvershoots ==
    sp_res = "Some" =>
        /\ ~(sp_prev > sp_target /\ sp_offset < sp_target)
        /\ ~(sp_prev < sp_target /\ sp_offset > sp_target)

\* C10: every Some(next) is strictly closer to the target than the offset
\* it was computed from, and the iteration reaches None
C10_MonotonicAndTerminates ==
    /\ [](sp_res = "Some" =>
            Abs(sp_offset - sp_target) < Abs(sp_prev - sp_target))
    /\ <>(sp_res = "None")

\* a step from farther than MaxSpring away has been taken
C10_Witness == sp_res = "Some" /\ Abs(sp_prev - sp_target) > MaxSpring

\* the action the frame that just ran held at lib.rs:372, once the drag's
\* outcome was stored and before the host's requests were looked at
ActionAfterDrag == IF drag_resp' # "None" THEN NavFromDrag(drag_resp') ELSE action

\* what a frame stores for an action a that NavAction::handle has run on:
\* a Returning(c) is still Returning(c) or has completed as Returned(c)
ReturningOrDone(a) == {a, Returned(ReturnTypeOf(a))}

\* C11 as stated: every frame with returning=true arms Returning(Click) unless
\* the action is already Returning(_), which it leaves in progress
C11_ReturnAlwaysArms ==
    [][returning' =>
         IF IsReturning(ActionAfterDrag)
         THEN action' \in ReturningOrDone(ActionAfterDrag)
         ELSE action' \in ReturningOrDone(Returning("Click"))]_vars

\* C11 amended: a frame with returning=true and navigating=false arms
\* Returning(Click) over every action but Returning(_), the drag's outcome of
\* the same frame included, and leaves a Returning(_) in progress; a frame
\* that also passes navigating=true ignores the return request and ends
\* Navigating or Navigated
C11_ReturnArmsUnlessNavigating ==
    [][/\ (returning' /\ ~navigating') =>
            IF IsReturning(ActionAfterDrag)
            THEN action' \in ReturningOrDone(ActionAfterDrag)
            ELSE action' \in ReturningOrDone(Returning("Click"))
       /\ (returning' /\ navigating') => action' \in {"Navigating", "Navigated"}]_vars

\* a return request that overrode the Dragging of the same frame
C11_Witness ==
    returning /\ ~navigating /\ drag_resp = "Dragging" /\ action = "Returning(Click)"

\* C12: in a frame with navigating=true whose action is anything but Navigating
\* the Offset is set to the content width and the action to Navigating, so the
\* frame ends Navigating one spring step below the width, whatever the Offset
\* was before
C12_NavigateStartsFromWidth ==
    [][(navigating' /\ ActionAfterDrag # "Navigating") =>
         /\ action' = "Navigating"
         /\ offset' = Width - springy(Width)
         /\ repaint']_vars

\* a navigate request that overrode the Returning(Drag) of a release
C12_Witness ==
    /\ navigating /\ drag_resp = "DragReleased(true)"
    /\ action = "Navigating" /\ offset = Width - springy(Width)

\* C13 as stated: a frame in which Drag::handle yields DragUnrelated and the
\* host requests nothing ends with the action Resetting
C13_UnrelatedEndsResetting ==
    [][(drag_resp' = "DragUnrelated" /\ ~navigating' /\ ~returning') =>
         action' = "Resetting"]_vars

\* C13 amended: in such a frame the action is set to Resetting whatever it was
\* and the Resetting action runs in the same frame: from an Offset farther
\* than the tolerance from rest the frame ends Resetting, one spring step
\* nearer to rest and with a repaint requested; from an Offset within the
\* tolerance the animation is over at once and the frame ends with action
\* None and the Offset untouched
C13_UnrelatedResets ==
    [][(drag_resp' = "DragUnrelated" /\ ~navigating' /\ ~returning') =>
         IF Abs(offset) > Tolerance
         THEN action' = "Resetting" /\ Abs(offset') < Abs(offset) /\ repaint'
         ELSE action' = "None" /\ offset' = offset]_vars

\* another widget holds the claim while a Nav that was Returning stands
\* displaced
C13_Witness ==
    /\ drag_resp = "DragUnrelated" /\ ~navigating /\ ~returning
    /\ dragged \in OtherIds /\ action = "Resetting" /\ offset > Width \div 2

\* C14: a Nav that is always shown with a stack of one route, from a fresh
\* surface on: its action is never Dragging, it is never the owner of the drag
\* claim and Drag::handle never reports to it
C14_SingleRouteNeverDrags ==
    action # "Dragging" /\ dragged # NavDragId /\ drag_resp = "None"

\* a decided drag that began inside the Nav's rectangle and that nobody claimed
C14_Witness ==
    /\ route_len = 1 /\ pointer.down /\ pointer.decided
    /\ RectContains(available_rect, pointer.origin[1])
    /\ pointer.latest[1].x - pointer.origin[1].x >= min_and
    /\ dragged = "None"

\* C15: a frame that finds the stored action None, brings no drag action and
\* carries neither navigating nor returning stores the State it loaded:
\* Offset, action and cached background rectangle are unchanged
C15_IdleFrameIsIdempotent ==
    [][(action = "None" /\ drag_resp' = "None" /\ ~navigating' /\ ~returning') =>
         /\ offset' = offset
         /\ action' = "None"
         /\ popped_min_rect' = popped_min_rect]_vars

\* an idle Nav that was in a transition before, while the pointer is held
\* and the Nav owns a drag that has no direction yet
C15_Witness ==
    /\ action = "None" /\ drag_resp = "None" /\ ~navigating /\ ~returning
    /\ popped_min_rect = "Some" /\ route_len > 1
    /\ pointer.down /\ dragged = NavDragId

\* C16 as stated: every Nav handed to the render callback in a frame, the
\* background's Nav included, has at least one route
C16_CallbackNavsHaveARoute ==
    [][\A n \in CallbackNavs([route_len |-> route_len', navigating |-> navigating',
                              returning |-> returning', id_source |-> "None"],
                             [action |-> action]) :
         n.route_len >= 1]_vars

\* C17: Nav::new and Router::new panic exactly on the empty stack, and on a
\* stack of one route or more they build the navigator over the routes given
C17_EmptyStackIsRefused ==
    /\ ctor.nav # <<>> =>
         /\ ctor.nav[1].panicked <=> Len(ctor.routes) = 0
         /\ ~ctor.nav[1].panicked => ctor.nav[1].route = ctor.routes
    /\ ctor.router # <<>> =>
         /\ ctor.router[1].panicked <=> Len(ctor.routes) = 0
         /\ ~ctor.router[1].panicked => ctor.router[1].routes = ctor.routes

\* both constructors were called on the empty stack
C17_Witness ==
    /\ Len(ctor.routes) = 0
    /\ ctor.nav # <<>> /\ ctor.nav[1].panicked
    /\ ctor.router # <<>> /\ ctor.router[1].panicked

\* the press origin of the call lies inside the Drag's content rectangle
OriginInside(d) ==
    d.ptr.origin # <<>> /\ RectContains(d.self.content_rect, d.ptr.origin[1])

\* C18: with no id holding the claim, Drag::handle leaves the Drag as the
\* owner exactly when the pointer is decidedly dragging with the button down
\* and the press origin lies inside the content rectangle; while an id that
\* is not in can_take_from holds the claim, the owner is left as it is
C18_ClaimsOnlyFreeGestureInside ==
    dh.out # <<>> =>
      /\ dh.ctx.dragged = "None" =>
           (dh.out[1].ctx.dragged = dh.self.id
              <=> (dh.ptr.down /\ dh.ptr.decided /\ OriginInside(dh)))
      /\ dh.ctx.dragged = "None" => dh.out[1].ctx.dragged \in {"None", dh.self.id}
      /\ (dh.ctx.dragged \in OtherIds /\ dh.ctx.dragged \notin dh.can_take_from) =>
           dh.out[1].ctx.dragged = dh.ctx.dragged

\* a free gesture claimed before its direction is known
C18_Witness ==
    /\ dh.out # <<>> /\ dh.ctx.dragged = "None"
    /\ dh.out[1].ctx.dragged = dh.self.id /\ dh.out[1].resp = "None"

\* C19: while another id holds the claim, Drag::handle makes the Drag the
\* owner if and only if that id is in can_take_from, the press origin lies
\* inside the content rectangle and the direction of the motion is one the
\* Drag accepts; it then reports Dragging and stores the gesture's DragState
C19_TakeoverIffEligible ==
    (dh.out # <<>> /\ dh.ctx.dragged \in OtherIds) =>
      /\ dh.out[1].ctx.dragged = dh.self.id
           <=> /\ dh.ctx.dragged \in dh.can_take_from
               /\ OriginInside(dh)
               /\ cur_direction(dh.ptr.origin[1], dh.ptr.latest[1], dh.self.angle)
                    \in dh.self.direction
      /\ dh.out[1].ctx.dragged = dh.self.id =>
           /\ dh.out[1].resp = "Dragging"
           /\ dh.out[1].ctx.drag_state =
                <<[start_pos |-> dh.ptr.origin[1],
                   cur_direction |-> cur_direction(dh.ptr.origin[1], dh.ptr.latest[1],
                                                   dh.self.angle)]>>
      /\ dh.out[1].ctx.dragged # dh.self.id => dh.out[1].ctx.dragged = dh.ctx.dragged

\* a claim taken from an eligible id, which egui reports as stopped
C19_Witness ==
    /\ dh.out # <<>> /\ dh.ctx.dragged \in OtherIds
    /\ dh.out[1].ctx.dragged = dh.self.id
    /\ dh.out[1].ctx.drag_stopped = dh.ctx.dragged

\* C20 as stated: with an inner Nav updated before the outer Nav in every
\* frame, no frame ends with both Navs holding the action Dragging
C20_OneSurfaceDragging ==
    ~(action = "Dragging" /\ inner.action = "Dragging")

\* the absolute deltas of the call of cur_direction under study
CdAbsDx == Abs(cd.start.x - cd.cur_pos.x)
CdAbsDy == Abs(cd.start.y - cd.cur_pos.y)
CdInDeadzone == CdAbsDx < min_and /\ CdAbsDy < min_and
Horizontal == {"LeftToRight", "RightToLeft"}

\* C21 as stated: outside the deadzone, under Balanced the axis with the
\* larger absolute delta wins; under VerticalNTimesEasier(N) the motion is
\* Vertical unless |dx| exceeds N times |dy|; a horizontal motion is
\* LeftToRight with the pointer right of the press origin and RightToLeft
\* with the pointer left of it
C21_DirectionFollowsAngle ==
    (cd.out # <<>> /\ ~CdInDeadzone) =>
      /\ cd.angle = Balanced =>
           /\ CdAbsDy > CdAbsDx => cd.out[1] = "Vertical"
           /\ CdAbsDx > CdAbsDy => cd.out[1] \in Horizontal
      /\ cd.angle # Balanced =>
           (cd.out[1] = "Vertical" <=> ~(CdAbsDx > cd.angle[2] * CdAbsDy))
      /\ cd.out[1] \in Horizontal =>
           /\ cd.cur_pos.x > cd.start.x => cd.out[1] = "LeftToRight"
           /\ cd.cur_pos.x < cd.start.x => cd.out[1] = "RightToLeft"

\* C21 amended: outside the deadzone the motion is Vertical exactly when
\* |dy| > |dx| under Balanced and when N * |dy| > |dx| under
\* VerticalNTimesEasier(N), so a tie is horizontal and N = 0 is never
\* Vertical; a horizontal motion is LeftToRight exactly when the pointer is
\* right of the press origin, and RightToLeft otherwise
C21_VerticalNeedsStrictExcess ==
    (cd.out # <<>> /\ ~CdInDeadzone) =>
      /\ cd.angle = Balanced => (cd.out[1] = "Vertical" <=> CdAbsDy > CdAbsDx)
      /\ cd.angle # Balanced =>
           (cd.out[1] = "Vertical" <=> cd.angle[2] * CdAbsDy > CdAbsDx)
      /\ cd.out[1] # "Vertical" =>
           cd.out[1] = (IF cd.cur_pos.x > cd.start.x THEN "LeftToRight"
                        ELSE "RightToLeft")

\* a motion of 10 px across and 2 px down under VerticalNTimesEasier(5)
C21_Witness ==
    /\ cd.out # <<>> /\ cd.angle = VerticalNTimesEasier(5)
    /\ CdAbsDx = 10 * Px /\ CdAbsDy = 2 * Px /\ cd.out[1] \in Horizontal

\* C22: cur_direction returns None exactly when both |dx| < 8 px and
\* |dy| < 8 px, under every angle policy, and a direction otherwise
C22_DeadzoneIsOpenSquare ==
    cd.out # <<>> =>
      /\ cd.out[1] = "None" <=> (CdAbsDx < 8 * Px /\ CdAbsDy < 8 * Px)
      /\ cd.out[1] # "None" => cd.out[1] \in AllDirections

\* a motion of exactly 8 px on one axis and less on the other is classified
C22_Witness ==
    /\ cd.out # <<>> /\ cd.out[1] # "None"
    /\ CdAbsDx = 8 * Px /\ CdAbsDy < 8 * Px /\ cd.angle # Balanced

\* the frame that just ran classified the gesture, as the owner of the claim
\* with the button held, and found no direction or one the Nav does not accept
Inconclusive ==
    /\ pointer'.down /\ route_len' > 1 /\ dragged' = NavDragId
    /\ cur_direction(pointer'.origin[1], pointer'.latest[1], Balanced) # "LeftToRight"

\* the pointer delta of the frame that just ran
FrameDelta ==
    IF pointer.down /\ pointer'.down
    THEN PosDiff(pointer'.latest[1], pointer.latest[1]) ELSE [x |-> 0, y |-> 0]

\* what the frame that just ran stores if no drag action is emitted and the
\* pointer has not moved
StillFrame ==
    ShowStored([route_len |-> route_len', navigating |-> navigating',
                returning |-> returning', id_source |-> "None"],
               ShowLoaded([offset |-> offset, action |-> action,
                           popped_min_rect |-> popped_min_rect]),
               [resp |-> "None", ctx |-> <<>>],
               [delta |-> [x |-> 0, y |-> 0]]).state

\* C23 as stated: a frame whose classification is inconclusive or conflicts
\* with the accepted directions emits no drag action, leaves the action to the
\* host's requests and stores the Offset a frame without pointer motion would
\* store, whatever the action was
C23_InconclusiveFrameIsNoOp ==
    [][Inconclusive =>
         /\ drag_resp' = "None"
         /\ action' = StillFrame.action
         /\ offset' = StillFrame.offset]_vars

\* C23 amended: such a frame emits no drag action and the drag leaves the
\* action alone; the Offset is not moved by the pointer delta unless the
\* action the frame handles is Dragging, a drag in progress that no host
\* request overrides: the Offset then keeps following the pointer, clamped to
\* 0..Width
C23_InconclusiveKeepsDragFollowing ==
    [][Inconclusive =>
         /\ drag_resp' = "None"
         /\ IF action = "Dragging" /\ ~navigating' /\ ~returning'
            THEN /\ action' = "Dragging"
                 /\ offset' = Max(0, IF offset + FrameDelta.x > Width THEN Width
                                     ELSE offset + FrameDelta.x)
            ELSE /\ action' = StillFrame.action
                 /\ offset' = StillFrame.offset]_vars

\* a drag brought back into the deadzone: the Offset followed the pointer
C23_Witness ==
    /\ pointer.down /\ route_len > 1 /\ dragged = NavDragId
    /\ cur_direction(pointer.origin[1], pointer.latest[1], Balanced) = "None"
    /\ action = "Dragging" /\ drag_resp = "None" /\ 0 < offset /\ offset < Width

\* the show_route calls of the frame that just ran
FrameRenderCalls ==
    RenderCalls([route_len |-> route_len', navigating |-> navigating',
                 returning |-> returning', id_source |-> "None"],
                [action |-> action])

\* C24: a frame renders the stack without its top as a background layer,
\* Body only, if and only if the action it loaded is Dragging, Resetting,
\* Returning(_) or Navigating; a frame that loaded None, Returned(_) or
\* Navigated renders the Title and the Body of the current stack and nothing
\* else
C24_BackgroundIffTransitioning ==
    [][/\ (\E c \in FrameRenderCalls : c.layer = "Background")
            <=> action \in {"Dragging", "Resetting", "Returning(Drag)",
                            "Returning(Click)", "Navigating"}
       /\ \A c \in FrameRenderCalls :
            c.layer = "Background" =>
                c.ui_type = "Body" /\ c.route_len = route_len' - 1
       /\ action \in {"None", "Returned(Drag)", "Returned(Click)", "Navigated"} =>
            FrameRenderCalls =
              {[ui_type |-> "Title", route_len |-> route_len', layer |-> "Title"],
               [ui_type |-> "Body", route_len |-> route_len',
                layer |-> "Foreground"]}]_vars

\* a push in progress over two routes, its background cached by a frame
\* that rendered it
C24_Witness ==
    action = "Navigating" /\ route_len = 2 /\ popped_min_rect = "Some" /\ offset > 0

\* C25 as stated: arming an action other than Navigating leaves the Offset
\* where it was, and a return request that arms Returning(Click) starts from
\* the current Offset, on each of the three surfaces
C25_OnlyNavigatingResets ==
    hr.out # <<>> =>
      /\ (hr.out[1].action # hr.st.action /\ hr.out[1].action # "Navigating") =>
           hr.out[1].offset = hr.st.offset
      /\ (hr.s.returning /\ ~hr.s.navigating) => hr.out[1].offset = hr.st.offset

\* the action the surface holds when it looks at the host's requests
HeldAtRequest ==
    IF hr.kind = "NavDrawer" \/ hr.drag_action = "None" THEN hr.st.action
    ELSE NavFromDrag(hr.drag_action)

\* C25 amended: the drag's outcome never moves the Offset; arming Navigating
\* sets it to the far end on Nav and PopupSheet and leaves it alone on
\* NavDrawer; a return request honoured (navigating not passed, the action
\* not Returning(_) already) leaves it alone on Nav and sets it to the open
\* position on PopupSheet (max_height) and NavDrawer (drawer_end_offset);
\* nothing else moves the Offset while an action is armed
C25_ReturnResetsOnSheetAndDrawer ==
    hr.out # <<>> =>
      hr.out[1].offset =
        (IF hr.s.navigating
         THEN (IF hr.kind = "NavDrawer" \/ HeldAtRequest = "Navigating"
               THEN hr.st.offset
               ELSE IF hr.kind = "Nav" THEN Width ELSE SheetBottom)
         ELSE IF hr.s.returning /\ ~IsReturning(HeldAtRequest)
         THEN (IF hr.kind = "Nav" THEN hr.st.offset
               ELSE IF hr.kind = "PopupSheet" THEN SheetMaxHeight ELSE DrawerEnd)
         ELSE hr.st.offset)

\* a sheet dragged away from its open position that is asked to return
C25_Witness ==
    /\ hr.out # <<>> /\ hr.kind = "PopupSheet" /\ hr.s.returning /\ ~hr.s.navigating
    /\ hr.st.action = "Dragging" /\ hr.st.offset = DrawerEnd
    /\ hr.out[1].action = "Returning(Click)" /\ hr.out[1].offset = SheetMaxHeight

\* the action NavAction::handle ran on in the frame that just ran: the
\* drag's outcome or the stored action, unless a host request replaced it
HandledAction ==
    IF navigating' THEN "Navigating"
    ELSE IF returning' /\ ~IsReturning(ActionAfterDrag) THEN Returning("Click")
    ELSE ActionAfterDrag
Animations == {"Navigating", "Returning(Drag)", "Returning(Click)", "Resetting"}

\* C26 as stated: every frame that runs a Navigating, Returning or Resetting
\* action and stores another Offset than it loaded calls request_repaint
C26_AnimationRequestsRepaint ==
    [][(HandledAction \in Animations /\ offset' # offset) => repaint']_vars

\* C26 amended: a frame that runs a Navigating, Returning or Resetting action
\* calls request_repaint exactly when the spring takes a step and the
\* animation goes on; the frame that ends the animation does not, and the
\* only such frame that stores another Offset is the end of a Returning,
\* which reports Returned(_) and stores the Offset at rest
C26_SpringStepRequestsRepaint ==
    [][(HandledAction \in Animations) =>
         /\ repaint' <=> (action' = HandledAction)
         /\ (~repaint' /\ offset' # offset) =>
              (IsReturning(HandledAction) /\ IsReturned(action') /\ offset' = 0)]_vars

\* the end of a Returning(Drag) animation, stored with no repaint requested
C26_Witness ==
    action = "Returned(Drag)" /\ drag_resp = "None" /\ ~repaint /\ offset = 0

\* what the documentation of top_n asks for: the route n positions below the
\* top while n < len, None from n = len on
TopNExpected ==
    IF tn.n.hi = 0 /\ tn.n.lo >= 0 /\ tn.n.lo < Len(tn.routes)
    THEN TopNReturn(<<tn.routes[Len(tn.routes) - tn.n.lo]>>)
    ELSE TopNReturn(<<>>)

C28_NoDraggingWithButtonUp == action = "Dragging" => pointer.down

\* C29: while the host keeps passing navigating=true and no drag action
\* arrives, a Navigating action is not armed again: every frame moves the
\* Offset strictly nearer to rest or reports Navigated, and Navigated is
\* reported after finitely many frames
C29_PushCompletes ==
    /\ [][(action = "Navigating" /\ navigating' /\ drag_resp' = "None") =>
            \/ action' = "Navigating" /\ Abs(offset') < Abs(offset)
            \/ action' = "Navigated" /\ offset' = offset]_vars
    /\ (action = "Navigating" /\ navigating) ~> (action = "Navigated")

\* a push reported as done to the host that asked for it
C29_Witness ==
    action = "Navigated" /\ navigating /\ ~repaint /\ Abs(offset) <= Tolerance

\* the claim of the call under study is held by an id that is neither the
\* Drag's own nor one it may take the drag from
HeldByUnrelated ==
    dh.out # <<>> /\ dh.ctx.dragged \in OtherIds /\ dh.ctx.dragged \notin dh.can_take_from
\* lines 66-70 of Drag::handle: DragUnrelated away from rest, nothing at rest
UnrelatedResponse ==
    IF dh.self.offset_from_rest > 0 THEN "DragUnrelated" ELSE "None"

\* C30 as stated: while an unrelated id holds the claim Drag::handle yields
\* DragUnrelated if the offset from rest is above 0 and nothing otherwise,
\* never Dragging, and leaves the owner of the claim as it is
C30_UnrelatedYieldsUnrelated ==
    HeldByUnrelated =>
      /\ dh.out[1].resp = UnrelatedResponse
      /\ dh.out[1].ctx.dragged = dh.ctx.dragged

\* C30 amended: in that case Drag::handle never yields Dragging and leaves
\* the owner as it is; it yields DragUnrelated if the offset from rest is
\* above 0 and nothing otherwise, unless egui reports in the same pass that
\* the Drag's own drag has stopped and a DragState is stored: the release is
\* then reported, as DragReleased with the threshold test if the stored
\* gesture began inside the rectangle in an accepted direction and as
\* DragUnrelated if not
C30_UnrelatedUnlessOwnDragStopped ==
    HeldByUnrelated =>
      /\ dh.out[1].resp # "Dragging"
      /\ dh.out[1].ctx.dragged = dh.ctx.dragged
      /\ dh.out[1].resp =
           (IF dh.ctx.drag_stopped = dh.self.id /\ dh.ctx.drag_state # <<>>
            THEN (IF /\ RectContains(dh.self.content_rect, dh.ctx.drag_state[1].start_pos)
                     /\ dh.ctx.drag_state[1].cur_direction \in dh.self.direction
                  THEN (IF dh.self.offset_from_rest >= dh.self.threshold
                        THEN "DragReleased(true)" ELSE "DragReleased(false)")
                  ELSE "DragUnrelated")
            ELSE UnrelatedResponse)

\* the Drag's claim was taken by an unrelated id earlier in the pass: its
\* release is reported although it is at rest
C30_Witness ==
    /\ HeldByUnrelated /\ dh.ctx.drag_stopped = dh.self.id
    /\ dh.self.offset_from_rest = 0 /\ dh.out[1].resp = "DragReleased(false)"
C32_ReleaseMappedByFocus ==
    [][(drawer'.drag_resp \in DragReleased) =>
         /\ drag_state # <<>>
         /\ drag_state[1].cur_direction \in
              (IF drawer'.focused THEN AllDirections ELSE {"LeftToRight"})
         /\ drawer'.drag_resp =
              (IF (IF drawer'.focused
                   THEN Abs(drawer.offset - drawer.drawer_end_offset)
                   ELSE drawer.offset) >= DrawerThreshold
               THEN "DragReleased(true)" ELSE "DragReleased(false)")
         /\ drawer'.armed =
              (IF drawer'.focused
               THEN (IF drawer'.drag_resp = "DragReleased(true)"
                     THEN Returning("Drag") ELSE "Resetting")
               ELSE (IF drawer'.drag_resp = "DragReleased(true)"
                     THEN "Navigating" ELSE Returning("Drag")))]_vars

\* a focused drawer released after a drag to the left that met the threshold
C32_Witness ==
    /\ drawer.drag_resp = "DragReleased(true)" /\ drawer.focused
    /\ drawer.armed = Returning("Drag") /\ ~pointer.down

\* C33: whatever the bounds and the pointer deltas, the Dragging arm leaves
\* the Offset between navigated_offset and returned_offset, in either
\* orientation and when the two are equal
C33_DraggingStaysBetweenBounds ==
    \/ hc.navigated_offset <= hc.offset /\ hc.offset <= hc.returned_offset
    \/ hc.returned_offset <= hc.offset /\ hc.offset <= hc.navigated_offset

\* the routes of a stack without its top
BelowTop(routes) == SubSeq(routes, 1, Len(routes) - 1)

\* C34: whatever operations were called, the Router holds a route and top()
\* succeeds with the last one; borrow_popped yields the routes below the top
\* of a Router with two routes or more and the same routes otherwise, so a
\* Router with at least one route
C34_RouterNeverEmpty ==
    /\ Len(router.r.routes) >= 1
    /\ ~top(router.r).panicked
    /\ router.op = "top" =>
          /\ ~router.panicked
          /\ router.ret = <<router.r.routes[Len(router.r.routes)]>>
    /\ router.op = "borrow_popped" =>
          /\ Len(router.borrowed[1].routes) >= 1
          /\ router.borrowed[1].routes =
               (IF Len(router.r.routes) >= 2 THEN BelowTop(router.r.routes)
                ELSE router.r.routes)

\* pop was called on the last route and left it in place
C34_Witness ==
    /\ router.op = "pop" /\ Len(router.before.routes) = 1
    /\ Len(router.r.routes) = 1 /\ router.ret = <<>>

\* C35: go_back on a Router that is returning or holds one route returns
\* None and changes nothing; otherwise it sets the RETURNING flag and nothing
\* else and returns the route below the top; a go_back that follows a go_back
\* returns None and changes nothing
C35_GoBackStartsOneReturn ==
    /\ [](router.op = "go_back" =>
            IF is_returning(router.before) \/ Len(router.before.routes) = 1
            THEN router.ret = <<>> /\ router.r = router.before
            ELSE /\ router.r.routes = router.before.routes
                 /\ router.r.flags = router.before.flags \cup {"RETURNING"}
                 /\ router.ret =
                      <<router.before.routes[Len(router.before.routes) - 1]>>)
    /\ [][(router.op = "go_back" /\ router'.op = "go_back") =>
            (router'.ret = <<>> /\ router'.r = router.r)]_vars

\* a go_back that started a return on a Router that is navigating
C35_Witness ==
    /\ router.op = "go_back" /\ router.ret # <<>>
    /\ ~is_returning(router.before) /\ is_returning(router.r)
    /\ "NAVIGATING" \in router.r.flags

\* C36: pop on a single route returns None and changes nothing; on two routes
\* or more it removes and returns the top and clears the RETURNING flag and
\* nothing else; after navigate, go_back and pop in a row the routes are
\* those before the navigate and the Router is not returning
C36_PopUndoesNavigate ==
    /\ router.op = "pop" =>
          IF Len(router.before.routes) = 1
          THEN router.ret = <<>> /\ router.r = router.before
          ELSE /\ router.r.routes = BelowTop(router.before.routes)
               /\ router.ret = <<router.before.routes[Len(router.before.routes)]>>
               /\ router.r.flags = router.before.flags \ {"RETURNING"}
    /\ router.run = 3 =>
          /\ router.r.routes = router.base
          /\ ~is_returning(router.r)

\* navigate, go_back and pop were called in a row on a Router that held two
\* routes, and the go_back started the return
C36_Witness ==
    /\ router.run = 3 /\ router.op = "pop" /\ Len(router.base) = 2
    /\ is_returning(router.before) /\ router.ret # <<>>

====
